---------------------------- MODULE Spec2Model ----------------------------
(***************************************************************************)
(* The APK publishing server: an object store (R2) holding the uploaded    *)
(* files and a catalog (the Apk collection) holding one record per         *)
(* published package.  Each HTTP handler is an async function; between two  *)
(* awaits it runs without interruption, and at every await another request  *)
(* may run.  An action below is one such uninterrupted stretch: the store   *)
(* call the handler was waiting for takes effect (or fails), and the        *)
(* handler runs on to its next await or to its response.                    *)
(*                                                                          *)
(* Strings the code takes apart (file names, storage keys, URLs, the        *)
(* versionCode form field) are sequences of one-character strings.          *)
(***************************************************************************)
EXTENDS Integers, Sequences, FiniteSets, TLC

VARIABLES
    variant,    \* which revision of the server is running
    catalog,    \* the Apk collection: sequence of records, in insertion order
    blobs,      \* keys of the objects present in the R2 bucket
    now,        \* Date.now(), in milliseconds
    nextId,     \* the next _id the catalog assigns
    rq,         \* request slots: the handler in flight in each, its locals
    started,    \* number of requests accepted so far
    last,       \* the slot whose handler ran in the last step (0: none)
    issued,     \* history: the storage keys generated so far
    reissued    \* history: the storage keys generated more than once

vars == <<variant, catalog, blobs, now, nextId, rq, started, last, issued, reissued>>

-----------------------------------------------------------------------------
(* Bounds of the model. *)

\* Date.now() runs from 1 to MaxClock.
MaxClock == 2

\* Requests accepted in one run.
MaxRequests == 2

\* Two handlers can be in flight at once.
Slots == {1, 2}

-----------------------------------------------------------------------------
(* JavaScript values. *)

Undefined == <<"undefined">>
Null == <<"null">>

\* !v
Falsy(v) == v = Undefined \/ v = Null \/ v = <<>>

\* a || b
OrElse(a, b) == IF Falsy(a) THEN b ELSE a

Lower == {"a","b","c","d","e","f","g","h","i","j","k","l","m",
          "n","o","p","q","r","s","t","u","v","w","x","y","z"}
Upper == {"A","B","C","D","E","F","G","H","I","J","K","L","M",
          "N","O","P","Q","R","S","T","U","V","W","X","Y","Z"}
Digit == {"0","1","2","3","4","5","6","7","8","9"}

DigitChar(d) == CASE d = 0 -> "0" [] d = 1 -> "1" [] d = 2 -> "2" [] d = 3 -> "3"
                  [] d = 4 -> "4" [] d = 5 -> "5" [] d = 6 -> "6" [] d = 7 -> "7"
                  [] d = 8 -> "8" [] d = 9 -> "9"

DigitValue(c) == CHOOSE d \in 0..9 : DigitChar(d) = c

\* `${n}` for a non-negative integer n
RECURSIVE NumberToString(_)
NumberToString(n) ==
    IF n < 10 THEN <<DigitChar(n)>>
    ELSE Append(NumberToString(n \div 10), DigitChar(n % 10))

\* s.replace(/[^a-zA-Z0-9.-]/g, "_")
SanitizeChar(c) == IF c \in Lower \cup Upper \cup Digit \cup {".", "-"} THEN c ELSE "_"
Sanitize(s) == [i \in 1..Len(s) |-> SanitizeChar(s[i])]

\* encodeURIComponent: unreserved characters are kept, every other ASCII
\* character becomes % and its two hexadecimal digits.  (The star and the
\* parentheses, unreserved too, and the quote and backslash are left out of
\* the tables: no name of the model holds them.)
Unreserved == Lower \cup Upper \cup Digit \cup {"-", "_", ".", "!", "~", "'"}
AsciiHex(c) ==
    CASE c = " " -> <<"2","0">> [] c = "#" -> <<"2","3">>
      [] c = "$" -> <<"2","4">> [] c = "%" -> <<"2","5">> [] c = "&" -> <<"2","6">>
      [] c = "+" -> <<"2","B">> [] c = "," -> <<"2","C">> [] c = "/" -> <<"2","F">>
      [] c = ":" -> <<"3","A">> [] c = ";" -> <<"3","B">> [] c = "<" -> <<"3","C">>
      [] c = "=" -> <<"3","D">> [] c = ">" -> <<"3","E">> [] c = "?" -> <<"3","F">>
      [] c = "@" -> <<"4","0">> [] c = "[" -> <<"5","B">> [] c = "]" -> <<"5","D">>
      [] c = "^" -> <<"5","E">> [] c = "{" -> <<"7","B">> [] c = "|" -> <<"7","C">>
      [] c = "}" -> <<"7","D">>
EncodeChar(c) == IF c \in Unreserved THEN <<c>> ELSE <<"%">> \o AsciiHex(c)
RECURSIVE encodeURIComponent(_)
encodeURIComponent(s) ==
    IF s = <<>> THEN <<>> ELSE EncodeChar(Head(s)) \o encodeURIComponent(Tail(s))

-----------------------------------------------------------------------------
(* Configuration and the two stores. *)

\* process.env.R2_PUBLIC_URL
PublicBase == <<"h","t","t","p","s",":","/","/","r","2">>

\* `${ns}/${Date.now()}-${name}`
StorageKey(ns, t, name) == ns \o <<"/">> \o NumberToString(t) \o <<"-">> \o name

Apks == <<"a","p","k","s">>
Icons == <<"i","c","o","n","s">>

\* (Faulty variant of PublicUrl: the key is not encoded.)
PublicUrlUnencoded(key) == PublicBase \o <<"/">> \o key

\* `${process.env.R2_PUBLIC_URL}/${encodeURIComponent(key)}`
PublicUrl(key) == PublicBase \o <<"/">> \o encodeURIComponent(key)

\* The errors a handler can catch, by their message (err.message).
StorageFault == "storage request failed"
CatalogFault == "catalog request failed"
ValidationFailed == "Apk validation failed"
NullDocument == "Cannot read properties of null"
CastFailed == "Cast to Number failed"

\* The paths apkSchema marks required, per revision.
RequiredPaths(v) ==
    IF v = "evolved" THEN {"description", "versionCode", "packageName"} ELSE {}

\* Document validation on save: a required path must be present and hold a
\* value (for a String path, a non-empty one).
SchemaValid(v, doc) ==
    \A path \in RequiredPaths(v) : path \in DOMAIN doc /\ ~Falsy(doc[path])

\* Apk.findById(id): the index of the record in the collection, 0 if none.
IndexOfId(id) ==
    IF \E i \in 1..Len(catalog) : catalog[i].id = id
    THEN CHOOSE i \in 1..Len(catalog) : catalog[i].id = id
    ELSE 0

HasRecord(id) == IndexOfId(id) # 0

\* The document Apk.create stores: the fields given, the _id the store
\* assigns, and the createdAt default (Date.now), which is taken when the
\* document is built, before the insert is sent.
NewDocument(doc, createdAt) == doc @@ [id |-> nextId, createdAt |-> createdAt]

\* Readers: GET /apks and GET /apks/:id serve the records of the catalog.
VisibleRecords == {catalog[i] : i \in 1..Len(catalog)}

\* Every key a record of the catalog references.
ReferencedKeys ==
    {catalog[i].apkKey : i \in 1..Len(catalog)}
      \cup {catalog[i].iconKey : i \in {j \in 1..Len(catalog) : ~Falsy(catalog[j].iconKey)}}

-----------------------------------------------------------------------------
(* Requests. *)

Secret == "JWT_SECRET"
GoodToken == [key |-> Secret, exp |-> MaxClock + 1]
ForgedToken == [key |-> "another secret", exp |-> MaxClock + 1]

\* The Authorization header: absent, or "Bearer <token>", the token good,
\* expired, or forged.
AuthHeaders == {<<>>, <<"Bearer", GoodToken>>,
                <<"Bearer", [key |-> Secret, exp |-> 0]>>,
                <<"Bearer", ForgedToken>>}

\* (Faulty variant of JwtVerify: the expiry of the token is not looked at.)
JwtVerifySignatureOnly(token) == token.key = Secret

\* jwt.verify(token, process.env.JWT_SECRET)
JwtVerify(token) == token.key = Secret /\ now < token.exp

\* authMiddleware: the error it answers 401 with, "" when it calls next().
authMiddleware(header) ==
    IF header = <<>> THEN "No token"
    ELSE IF ~JwtVerify(header[2]) THEN "Invalid token"
    ELSE ""

\* Names of uploaded files (file.originalname).
IconNames == {<<"i",".","p">>}

\* (createdAt: the time at which the handler built its document, 0 before;
\* res: the response, of status 0 as long as none is sent.)
Idle == [pc |-> "idle", op |-> "none", req |-> <<>>, existingApk |-> <<>>,
         updateData |-> <<>>, apkKey |-> Null, iconKey |-> Null,
         createdAt |-> 0, calls |-> <<>>,
         res |-> [status |-> 0, error |-> <<>>, details |-> "", body |-> <<>>]]

\* res.status(code).json({ error })
ErrorResponse(code, error, details) ==
    [status |-> code, error |-> error, details |-> details, body |-> <<>>]

\* res.status(code).json(record)
RecordResponse(code, record) ==
    [status |-> code, error |-> <<>>, details |-> "", body |-> record]

\* The storage keys a handler has generated.
KeysOf(slot) == {slot.apkKey, slot.iconKey} \ {Null}

\* The handler of slot r moves on to slot record `next`; a response already
\* sent in another slot is gone with its handler.  The history variables
\* take the keys the handler has generated in this step.
Step(r, next) ==
    LET before == IF rq[r].pc \in {"idle", "done"} THEN {} ELSE KeysOf(rq[r])
        fresh == KeysOf(next) \ before
    IN  /\ rq' = [s \in Slots |-> IF s = r THEN next
                                  ELSE IF rq[s].pc = "done" THEN Idle ELSE rq[s]]
        /\ last' = r
        /\ issued' = issued \cup fresh
        /\ reissued' = reissued \cup (fresh \cap issued)

Call(name, key, ok) == [call |-> name, key |-> key, ok |-> ok]

\* The catalogs of the first and the JWT revision and the array of the
\* in-memory revision start empty: a run of them is given one
\* request more, to publish what the later requests work on.
RequestLimit ==
    IF variant \in {"jwt", "memory", "first"} THEN MaxRequests + 1 ELSE MaxRequests

\* A new request is served in the first slot that holds no handler.
Free(s) == rq[s].pc \in {"idle", "done"}
CanAccept(r) ==
    /\ Free(r)
    /\ \A s \in Slots : s < r => ~Free(s)
    /\ started < RequestLimit

-----------------------------------------------------------------------------
(* POST /apks: publish. *)

Title == <<"N","e","w">>
Package == <<"p","k","g">>
Text == <<"t","x","t">>

\* The form fields of a publish request.  The JWT revision reads the title
\* alone.  A client of the evolved revision may send a versionCode, which
\* the handler does not read.
PostBodies ==
    IF variant = "evolved"
    THEN [title : {Undefined, Title}, packageName : {Undefined, Package},
          description : {Undefined, Text}, version : {Undefined},
          versionCode : {Undefined, <<"7">>}]
    ELSE [title : {Undefined, Title}]

CompleteBody ==
    IF variant = "evolved"
    THEN [title |-> Title, packageName |-> Package, description |-> Text,
          version |-> Undefined, versionCode |-> <<"7">>]
    ELSE [title |-> Title]

\* A file name with a blank in it.
AppV1Apk == <<"a","p","p"," ","v","1",".","a","p","k">>

\* The publish requests of the model.  With a good token: every combination
\* of the fields the handler reads and of the files, and the complete
\* request (a versionCode sent too) with every combination of files.  And
\* the complete request with both files, with each header that fails.  And
\* the complete request with the file "app v1.apk" and no icon.
PostRequests ==
    {[auth |-> <<"Bearer", GoodToken>>, body |-> CompleteBody,
      apk |-> AppV1Apk, icon |-> Undefined]} \cup
    {q \in [auth : AuthHeaders, body : PostBodies,
            apk : {<<"a"," ","1">>, <<"a","_","1">>, Undefined},
            icon : IconNames \cup {Undefined}] :
        \/ /\ q.auth = <<"Bearer", GoodToken>>
           /\ variant = "evolved" =>
                (q.body.versionCode = Undefined \/ q.body = CompleteBody)
        \/ q.body = CompleteBody /\ q.apk # Undefined /\ q.icon # Undefined}

\* The handler's own validation: the error it answers 400 with, "" if none.
PostValidation(q) ==
    IF variant = "evolved" /\ Falsy(q.body.packageName) THEN "packageName is required"
    ELSE IF variant = "evolved" /\ Falsy(q.body.description) THEN "description is required"
    ELSE IF q.apk = Undefined THEN "APK file is required"
    ELSE ""

\* The object handed to Apk.create.
PostDocument(slot) ==
    LET q == slot.req
        files == [title |-> OrElse(q.body.title, q.apk),
                  apkUrl |-> PublicUrl(slot.apkKey),
                  iconUrl |-> IF slot.iconKey = Null THEN Null ELSE PublicUrl(slot.iconKey),
                  apkKey |-> slot.apkKey,
                  iconKey |-> slot.iconKey]
    IN  IF variant = "evolved"
        THEN files @@ [description |-> q.body.description,
                       version |-> OrElse(q.body.version, Null),
                       packageName |-> q.body.packageName]
        ELSE files

\* The catch block of the upload handler.
PostFailure(message) ==
    IF variant = "evolved" THEN ErrorResponse(500, <<"Upload failed">>, message)
    ELSE ErrorResponse(500, <<"Upload failed: ", message>>, "")

\* authMiddleware, then upload.fields(...).  multer reads a multipart request
\* and the handler runs in a later turn.  A request that is not multipart it
\* hands on at once, req.files unset, and the handler runs in the turn of
\* the arrival: it reads req.body, which express.json() has set to the
\* parsed body; for a request without body express.json() of Express 4 sets
\* {} and that of Express 5 leaves req.body undefined, the destructuring
\* then throws inside the try (the repository names no version of express:
\* either may be installed).  Without a file the validation answers 400.
PostAccept(r) ==
    /\ CanAccept(r)
    /\ started' = started + 1
    /\ \E p \in PostRequests, sent \in {"multipart", "json", "none"} :
         LET q == [sent |-> sent] @@ p
             slot == [Idle EXCEPT !.op = "publish", !.req = q]
         IN
         /\ sent # "multipart" =>
              /\ authMiddleware(p.auth) = "" /\ p.apk = Undefined /\ p.icon = Undefined
              /\ sent = "none" => \A f \in DOMAIN p.body : p.body[f] = Undefined
         /\ IF authMiddleware(q.auth) # ""
            THEN Step(r, [slot EXCEPT !.pc = "done",
                            !.res = ErrorResponse(401, <<authMiddleware(q.auth)>>, "")])
            ELSE IF sent = "multipart"
            THEN Step(r, [slot EXCEPT !.pc = "multer"])
            ELSE \/ Step(r, [slot EXCEPT !.pc = "done",
                               !.res = ErrorResponse(400, <<PostValidation(q)>>, "")])
                 \/ /\ sent = "none"
                    /\ Step(r, [slot EXCEPT !.pc = "done", !.res = PostFailure(
                          "Cannot destructure property 'title' of 'req.body' as it is undefined.")])
    /\ UNCHANGED <<variant, catalog, blobs, now, nextId>>

\* The handler, multer having parsed the request: the validation, the key
\* of the APK; the handler then awaits the upload of the APK.
PostStart(r) ==
    /\ rq[r].op = "publish" /\ rq[r].pc = "multer"
    /\ LET slot == rq[r]
           q == slot.req
       IN  IF PostValidation(q) # ""
           THEN Step(r, [slot EXCEPT !.pc = "done",
                           !.res = ErrorResponse(400, <<PostValidation(q)>>, "")])
           ELSE Step(r, [slot EXCEPT !.pc = "putApk",
                           !.apkKey = StorageKey(Apks, now, Sanitize(q.apk))])
    /\ UNCHANGED <<variant, catalog, blobs, now, nextId, started>>

\* Where the upload handler goes once the APK is stored: to the upload of
\* the icon, under a key generated now, or to the catalog.
PostAfterApk(slot) ==
    IF slot.req.icon # Undefined
    THEN [slot EXCEPT !.pc = "putIcon",
                      !.iconKey = StorageKey(Icons, now, Sanitize(slot.req.icon))]
    ELSE [slot EXCEPT !.pc = "create", !.createdAt = now]

\* (Faulty variant of PostApkFailed: the failure of the upload is swallowed
\* and the handler goes on.)
PostApkFailedSwallowed(slot) == PostAfterApk(slot)

\* Where the upload handler goes when the upload of the APK fails: to its
\* catch block.
PostApkFailed(slot) == [slot EXCEPT !.pc = "done", !.res = PostFailure(StorageFault)]

\* await r2.send(PutObjectCommand(apkKey))
PostPutApk(r) ==
    /\ rq[r].op = "publish" /\ rq[r].pc = "putApk"
    /\ \E ok \in BOOLEAN :
         LET slot == [rq[r] EXCEPT !.calls = Append(@, Call("put", rq[r].apkKey, ok))] IN
         IF ok
         THEN /\ blobs' = blobs \cup {slot.apkKey}
              /\ Step(r, PostAfterApk(slot))
         ELSE /\ blobs' = blobs
              /\ Step(r, PostApkFailed(slot))
    /\ UNCHANGED <<variant, catalog, now, nextId, started>>

\* await r2.send(PutObjectCommand(iconKey)); a failure goes to the catch
\* block.
PostPutIcon(r) ==
    /\ rq[r].op = "publish" /\ rq[r].pc = "putIcon"
    /\ \E ok \in BOOLEAN :
         LET slot == [rq[r] EXCEPT !.calls = Append(@, Call("put", rq[r].iconKey, ok))] IN
         IF ok
         THEN /\ blobs' = blobs \cup {slot.iconKey}
              /\ Step(r, [slot EXCEPT !.pc = "create", !.createdAt = now])
         ELSE /\ blobs' = blobs
              /\ Step(r, [slot EXCEPT !.pc = "done", !.res = PostFailure(StorageFault)])
    /\ UNCHANGED <<variant, catalog, now, nextId, started>>

\* (Faulty variant of CatalogAfterCreate: the document is written although
\* the call throws.)
CatalogAfterCreateAlways(ok, new) == Append(catalog, new)

\* The collection after Apk.create has been answered, `new` being the
\* document it built.
CatalogAfterCreate(ok, new) == IF ok THEN Append(catalog, new) ELSE catalog

\* await Apk.create(doc), the document built (its createdAt taken) when the
\* call was made: the store is reached and the document passes the schema,
\* or the call throws.
PostCreate(r) ==
    /\ rq[r].op = "publish" /\ rq[r].pc = "create"
    /\ \E reached \in BOOLEAN :
         LET doc == PostDocument(rq[r])
             new == NewDocument(doc, rq[r].createdAt)
             ok == reached /\ SchemaValid(variant, doc)
             slot == [rq[r] EXCEPT !.calls = Append(@, Call("create", rq[r].apkKey, ok))]
         IN
         IF ok
         THEN /\ catalog' = CatalogAfterCreate(ok, new)
              /\ nextId' = nextId + 1
              /\ Step(r, [slot EXCEPT !.pc = "done",
                            !.res = RecordResponse(201, new)])
         ELSE /\ catalog' = CatalogAfterCreate(ok, new)
              /\ nextId' = nextId
              /\ Step(r, [slot EXCEPT !.pc = "done",
                            !.res = PostFailure(IF SchemaValid(variant, doc)
                                                THEN CatalogFault
                                                ELSE ValidationFailed)])
    /\ UNCHANGED <<variant, blobs, now, started>>

-----------------------------------------------------------------------------
(* PUT /apks/:id: replace (the evolved revision). *)

\* The white space and line terminators of JavaScript: the blank, tab, line
\* feed, carriage return, form feed, and, named by their code points, the
\* vertical tab, the no-break space, the byte order mark, the line and
\* paragraph separators, and the other space separators of Unicode.
WhiteSpace == {" ", "\t", "\n", "\r", "\f",
               "U+000B", "U+00A0", "U+FEFF", "U+2028", "U+2029",
               "U+1680", "U+2000", "U+2001", "U+2002", "U+2003", "U+2004",
               "U+2005", "U+2006", "U+2007", "U+2008", "U+2009", "U+200A",
               "U+202F", "U+205F", "U+3000"}

\* parseInt(s): leading white space and a sign are skipped; after a prefix
\* 0x or 0X the digits are hexadecimal, else decimal; the longest run of
\* digits is the value, and without a digit the result is NaN.
RECURSIVE SkipBlanks(_)
SkipBlanks(s) == IF s # <<>> /\ Head(s) \in WhiteSpace THEN SkipBlanks(Tail(s)) ELSE s

HexDigit == Digit \cup {"a","b","c","d","e","f","A","B","C","D","E","F"}

RECURSIVE HexDigitsValue(_, _)
HexDigitsValue(s, acc) ==
    LET c == Head(s)
        value == IF c \in Digit THEN DigitValue(c)
                 ELSE CASE c \in {"a", "A"} -> 10 [] c \in {"b", "B"} -> 11
                        [] c \in {"c", "C"} -> 12 [] c \in {"d", "D"} -> 13
                        [] c \in {"e", "E"} -> 14 [] c \in {"f", "F"} -> 15
    IN  IF s # <<>> /\ Head(s) \in HexDigit
        THEN HexDigitsValue(Tail(s), 16 * acc + value)
        ELSE acc

RECURSIVE DigitsValue(_, _)
DigitsValue(s, acc) ==
    IF s # <<>> /\ Head(s) \in Digit
    THEN DigitsValue(Tail(s), 10 * acc + DigitValue(Head(s)))
    ELSE acc

Unsigned(s) == IF s # <<>> /\ Head(s) \in {"-", "+"} THEN Tail(s) ELSE s

parseIntIsNaN(s) ==
    LET u == Unsigned(SkipBlanks(s))
        hex == Len(u) >= 2 /\ u[1] = "0" /\ u[2] \in {"x", "X"}
    IN  IF hex THEN Len(u) = 2 \/ u[3] \notin HexDigit
        ELSE u = <<>> \/ Head(u) \notin Digit

parseInt(s) ==
    LET t == SkipBlanks(s)
        u == Unsigned(t)
        hex == Len(u) >= 2 /\ u[1] = "0" /\ u[2] \in {"x", "X"}
        v == IF hex THEN HexDigitsValue(SubSeq(u, 3, Len(u)), 0)
             ELSE DigitsValue(u, 0)
    IN  IF t # <<>> /\ Head(t) = "-" THEN 0 - v ELSE v

NoPatch == [title |-> Undefined, packageName |-> Undefined, description |-> Undefined,
            version |-> Undefined, versionCode |-> Undefined]

\* The form fields of a replace request.
PutBodies ==
    {NoPatch,
     [NoPatch EXCEPT !.title = Title],
     [NoPatch EXCEPT !.title = <<>>],
     [NoPatch EXCEPT !.packageName = <<"q">>, !.description = <<"d">>,
                     !.version = <<"2",".","0">>, !.versionCode = <<"7">>],
     [NoPatch EXCEPT !.versionCode = <<"x">>],
     [NoPatch EXCEPT !.versionCode = <<"\t", "0", "x", "1", "0">>]}

\* The ids a request can name: those of the first two records of the
\* catalog, and one no record ever has.
Ids == {1, 2, 9}

\* req.params.id is any text of the path.  A text that is no ObjectId (24
\* hexadecimal digits) is id 0 here: Apk.findById throws a CastError for
\* it before the store is asked.
ObjectIdCastFails(id) == id = 0

\* The replace requests of the model.  With a good token: every id, the
\* text that is no ObjectId too, with every combination of files and no
\* field; record 1 with each set of fields and no file; record 1 with a new
\* title and both files; record 1 with a new APK and a versionCode that is
\* no number.  And the request with both files, with each header that fails.
PutRequests ==
    {q \in [auth : AuthHeaders, id : Ids \cup {0}, body : PutBodies,
            apk : {Undefined, <<"a"," ","1">>}, icon : IconNames \cup {Undefined}] :
        \/ /\ q.auth = <<"Bearer", GoodToken>>
           /\ \/ q.body = NoPatch
              \/ q.id = 1 /\ q.apk = Undefined /\ q.icon = Undefined
              \/ q.id = 1 /\ q.apk # Undefined /\ q.icon # Undefined
                   /\ q.body = [NoPatch EXCEPT !.title = Title]
              \/ q.id = 1 /\ q.apk # Undefined /\ q.icon = Undefined
                   /\ q.body = [NoPatch EXCEPT !.versionCode = <<"x">>]
        \/ q.id = 1 /\ q.body = NoPatch /\ q.apk # Undefined /\ q.icon # Undefined}

\* const updateData = { ... }
UpdateData(q, existingApk) ==
    [title |-> OrElse(q.body.title, existingApk.title),
     packageName |-> OrElse(q.body.packageName, existingApk.packageName),
     description |-> OrElse(q.body.description, existingApk.description),
     version |-> OrElse(q.body.version, existingApk.version),
     versionCode |-> IF q.body.versionCode # Undefined
                     THEN parseInt(q.body.versionCode)
                     ELSE existingApk.versionCode]

\* The catch block of the update handler.
PutFailure(message) == ErrorResponse(500, <<"Update failed">>, message)

\* authMiddleware, then upload.fields(...).  multer reads a multipart request
\* and the handler runs in a later turn.  A request that is not multipart it
\* hands on at once, req.files unset, and the handler runs in the turn of
\* the arrival up to its await of Apk.findById; where express.json() has
\* left req.body undefined (Express 5, a request without body) the
\* destructuring throws inside the try.
PutAccept(r) ==
    /\ CanAccept(r)
    /\ started' = started + 1
    /\ \E p \in PutRequests, sent \in {"multipart", "json", "none"} :
         LET q == [sent |-> sent] @@ p
             slot == [Idle EXCEPT !.op = "replace", !.req = q]
         IN
         /\ sent # "multipart" =>
              /\ authMiddleware(p.auth) = "" /\ p.apk = Undefined /\ p.icon = Undefined
              /\ p.id = 1
              /\ sent = "none" => p.body = NoPatch
         /\ IF authMiddleware(q.auth) # ""
            THEN Step(r, [slot EXCEPT !.pc = "done",
                            !.res = ErrorResponse(401, <<authMiddleware(q.auth)>>, "")])
            ELSE IF sent = "multipart"
            THEN Step(r, [slot EXCEPT !.pc = "multer"])
            ELSE \/ Step(r, [slot EXCEPT !.pc = "find"])
                 \/ /\ sent = "none"
                    /\ Step(r, [slot EXCEPT !.pc = "done", !.res = PutFailure(
                          "Cannot destructure property 'title' of 'req.body' as it is undefined.")])
    /\ UNCHANGED <<variant, catalog, blobs, now, nextId>>

\* The handler, multer having parsed the request: it reads req.body and
\* req.files and awaits Apk.findById.
PutStart(r) ==
    /\ rq[r].op = "replace" /\ rq[r].pc = "multer"
    /\ Step(r, [rq[r] EXCEPT !.pc = "find"])
    /\ UNCHANGED <<variant, catalog, blobs, now, nextId, started>>

\* The icon part of the update handler, from `if (iconFile)` to its first
\* await: the delete of the old icon if the record has one, else the upload
\* of the new icon under a key generated now; without a new icon, the update.
PutIconPart(slot) ==
    IF slot.req.icon = Undefined THEN [slot EXCEPT !.pc = "update"]
    ELSE IF ~Falsy(slot.existingApk.iconKey) THEN [slot EXCEPT !.pc = "delIcon"]
    ELSE [slot EXCEPT !.pc = "putIcon",
                      !.iconKey = StorageKey(Icons, now, Sanitize(slot.req.icon))]

\* The APK part of the update handler, from `if (apkFile)` to its first await.
PutApkPart(slot) ==
    IF slot.req.apk # Undefined THEN [slot EXCEPT !.pc = "delApk"]
    ELSE PutIconPart(slot)

\* await Apk.findById(req.params.id): it throws the CastError of an id that
\* is no ObjectId, or the error of a store that is not reached; the catch
\* block answers either.
PutFind(r) ==
    /\ rq[r].op = "replace" /\ rq[r].pc = "find"
    /\ \E reached \in BOOLEAN :
         LET cast == ~ObjectIdCastFails(rq[r].req.id)
             slot == [rq[r] EXCEPT
                        !.calls = Append(@, Call("findById", Null, cast /\ reached))]
             i == IndexOfId(slot.req.id)
         IN
         IF ~cast
         THEN Step(r, [slot EXCEPT !.pc = "done",
                         !.res = PutFailure("Cast to ObjectId failed")])
         ELSE IF ~reached
         THEN Step(r, [slot EXCEPT !.pc = "done", !.res = PutFailure(CatalogFault)])
         ELSE IF i = 0
         THEN Step(r, [slot EXCEPT !.pc = "done",
                         !.res = ErrorResponse(404, <<"APK not found">>, "")])
         ELSE Step(r, PutApkPart([slot EXCEPT
                         !.existingApk = catalog[i],
                         !.updateData = UpdateData(slot.req, catalog[i])]))
    /\ UNCHANGED <<variant, catalog, blobs, now, nextId, started>>

\* (Faulty variant of PutAfterDelApk: a failed delete goes to the catch
\* block of the handler.)
PutAfterDelApkOrAbort(slot, ok) ==
    IF ok
    THEN [slot EXCEPT !.pc = "putApk",
                      !.apkKey = StorageKey(Apks, now, Sanitize(slot.req.apk))]
    ELSE [slot EXCEPT !.pc = "done", !.res = PutFailure(StorageFault)]

\* What the handler does when the delete of the old APK has been answered,
\* whether it succeeded or threw: it generates the new key and uploads.
PutAfterDelApk(slot, ok) ==
    [slot EXCEPT !.pc = "putApk",
                 !.apkKey = StorageKey(Apks, now, Sanitize(slot.req.apk))]

\* try { await r2.send(DeleteObjectCommand(existingApk.apkKey)) } catch {}
PutDelApk(r) ==
    /\ rq[r].op = "replace" /\ rq[r].pc = "delApk"
    /\ \E ok \in BOOLEAN :
         LET key == rq[r].existingApk.apkKey
             slot == [rq[r] EXCEPT !.calls = Append(@, Call("delete", key, ok))]
         IN
         /\ blobs' = IF ok THEN blobs \ {key} ELSE blobs
         /\ Step(r, PutAfterDelApk(slot, ok))
    /\ UNCHANGED <<variant, catalog, now, nextId, started>>

\* await r2.send(PutObjectCommand(newApkKey)); updateData.apkKey, apkUrl
PutPutApk(r) ==
    /\ rq[r].op = "replace" /\ rq[r].pc = "putApk"
    /\ \E ok \in BOOLEAN :
         LET key == rq[r].apkKey
             slot == [rq[r] EXCEPT !.calls = Append(@, Call("put", key, ok))]
         IN
         IF ok
         THEN /\ blobs' = blobs \cup {key}
              /\ Step(r, PutIconPart([slot EXCEPT !.updateData =
                           [apkKey |-> key, apkUrl |-> PublicUrl(key)] @@ @]))
         ELSE /\ blobs' = blobs
              /\ Step(r, [slot EXCEPT !.pc = "done", !.res = PutFailure(StorageFault)])
    /\ UNCHANGED <<variant, catalog, now, nextId, started>>

\* (Faulty variant of PutAfterDelIcon: a failed delete goes to the catch
\* block of the handler.)
PutAfterDelIconOrAbort(slot, ok) ==
    IF ok
    THEN [slot EXCEPT !.pc = "putIcon",
                      !.iconKey = StorageKey(Icons, now, Sanitize(slot.req.icon))]
    ELSE [slot EXCEPT !.pc = "done", !.res = PutFailure(StorageFault)]

\* What the handler does when the delete of the old icon has been answered.
PutAfterDelIcon(slot, ok) ==
    [slot EXCEPT !.pc = "putIcon",
                 !.iconKey = StorageKey(Icons, now, Sanitize(slot.req.icon))]

\* try { await r2.send(DeleteObjectCommand(existingApk.iconKey)) } catch {}
PutDelIcon(r) ==
    /\ rq[r].op = "replace" /\ rq[r].pc = "delIcon"
    /\ \E ok \in BOOLEAN :
         LET key == rq[r].existingApk.iconKey
             slot == [rq[r] EXCEPT !.calls = Append(@, Call("delete", key, ok))]
         IN
         /\ blobs' = IF ok THEN blobs \ {key} ELSE blobs
         /\ Step(r, PutAfterDelIcon(slot, ok))
    /\ UNCHANGED <<variant, catalog, now, nextId, started>>

\* await r2.send(PutObjectCommand(newIconKey)); updateData.iconKey, iconUrl
PutPutIcon(r) ==
    /\ rq[r].op = "replace" /\ rq[r].pc = "putIcon"
    /\ \E ok \in BOOLEAN :
         LET key == rq[r].iconKey
             slot == [rq[r] EXCEPT !.calls = Append(@, Call("put", key, ok))]
         IN
         IF ok
         THEN /\ blobs' = blobs \cup {key}
              /\ Step(r, [slot EXCEPT !.pc = "update", !.updateData =
                           [iconKey |-> key, iconUrl |-> PublicUrl(key)] @@ @])
         ELSE /\ blobs' = blobs
              /\ Step(r, [slot EXCEPT !.pc = "done", !.res = PutFailure(StorageFault)])
    /\ UNCHANGED <<variant, catalog, now, nextId, started>>

\* (Faulty variant of Merged: the URLs of the update are dropped.)
MergedWithoutUrls(updateData, record) ==
    [f \in DOMAIN record |->
       IF f \in DOMAIN updateData /\ f \notin {"apkUrl", "iconUrl"}
       THEN updateData[f] ELSE record[f]]

\* The record findByIdAndUpdate writes: the fields of the update set on the
\* stored document, every other field kept.
Merged(updateData, record) == updateData @@ record

\* (Faulty variant of CatalogAfterUpdate: the update is written although the
\* call throws.)
CatalogAfterUpdateAlways(ok, slot) ==
    LET i == IndexOfId(slot.req.id) IN
    IF i # 0 THEN [catalog EXCEPT ![i] = Merged(slot.updateData, @)] ELSE catalog

\* (Faulty variant of CatalogAfterUpdate: an upsert, which inserts the
\* document when no record has the id.)
CatalogAfterUpsert(ok, slot) ==
    LET i == IndexOfId(slot.req.id) IN
    IF i # 0 /\ ok THEN [catalog EXCEPT ![i] = Merged(slot.updateData, @)]
    ELSE IF i = 0 THEN Append(catalog, Merged(slot.updateData, slot.existingApk))
    ELSE catalog

\* The collection after Apk.findByIdAndUpdate(req.params.id, updateData) has
\* been answered: the record of the id is rewritten when the call succeeds.
CatalogAfterUpdate(ok, slot) ==
    LET i == IndexOfId(slot.req.id) IN
    IF ok THEN [catalog EXCEPT ![i] = Merged(slot.updateData, @)] ELSE catalog

\* await Apk.findByIdAndUpdate(id, updateData, { new: true }), then
\* updatedApk._id: the update throws when the store is not reached or
\* versionCode is NaN, and gives null when no record has the id.
PutUpdate(r) ==
    /\ rq[r].op = "replace" /\ rq[r].pc = "update"
    /\ \E reached \in BOOLEAN :
         LET q == rq[r].req
             i == IndexOfId(q.id)
             nan == q.body.versionCode # Undefined /\ parseIntIsNaN(q.body.versionCode)
             ok == reached /\ ~nan /\ i # 0
             slot == [rq[r] EXCEPT !.calls = Append(@, Call("findByIdAndUpdate", Null, ok))]
         IN
         IF ok
         THEN /\ catalog' = CatalogAfterUpdate(ok, slot)
              /\ Step(r, [slot EXCEPT !.pc = "done",
                            !.res = RecordResponse(200, Merged(slot.updateData, catalog[i]))])
         ELSE /\ catalog' = CatalogAfterUpdate(ok, slot)
              /\ Step(r, [slot EXCEPT !.pc = "done",
                            !.res = PutFailure(IF nan THEN CastFailed
                                               ELSE IF ~reached THEN CatalogFault
                                               ELSE NullDocument)])
    /\ UNCHANGED <<variant, blobs, now, nextId, started>>

-----------------------------------------------------------------------------
(* DELETE /apks/:id: remove. *)

\* The remove requests: with a good token, every id and the text that is
\* no ObjectId; record 1 with each header that fails.
DeleteRequests ==
    {q \in [auth : AuthHeaders, id : Ids \cup {0}] :
        q.auth = <<"Bearer", GoodToken>> \/ q.id = 1}

\* The catch block of the delete handler.
DeleteFailure == ErrorResponse(500, <<"Server error">>, "")

\* authMiddleware; the handler then awaits Apk.findById.
DeleteStart(r) ==
    /\ CanAccept(r)
    /\ started' = started + 1
    /\ \E q \in DeleteRequests :
         LET slot == [Idle EXCEPT !.op = "remove", !.req = q] IN
         IF authMiddleware(q.auth) # ""
         THEN Step(r, [slot EXCEPT !.pc = "done",
                         !.res = ErrorResponse(401, <<authMiddleware(q.auth)>>, "")])
         ELSE Step(r, [slot EXCEPT !.pc = "find"])
    /\ UNCHANGED <<variant, catalog, blobs, now, nextId>>

\* await Apk.findById(req.params.id): it throws the CastError of an id that
\* is no ObjectId, or the error of a store that is not reached; the catch
\* block answers either.
DeleteFind(r) ==
    /\ rq[r].op = "remove" /\ rq[r].pc = "find"
    /\ \E reached \in BOOLEAN :
         LET ok == reached /\ ~ObjectIdCastFails(rq[r].req.id)
             slot == [rq[r] EXCEPT !.calls = Append(@, Call("findById", Null, ok))]
             i == IndexOfId(slot.req.id)
         IN
         IF ~ok
         THEN Step(r, [slot EXCEPT !.pc = "done", !.res = DeleteFailure])
         ELSE IF i = 0
         THEN Step(r, [slot EXCEPT !.pc = "done",
                         !.res = ErrorResponse(404, <<"APK not found">>, "")])
         ELSE Step(r, [slot EXCEPT !.pc = "delApk", !.existingApk = catalog[i]])
    /\ UNCHANGED <<variant, catalog, blobs, now, nextId, started>>

\* (Faulty variant of DeleteAfterApk: a failed delete goes to the catch block
\* of the handler.)
DeleteAfterApkOrAbort(slot, ok) ==
    IF ~ok THEN [slot EXCEPT !.pc = "done", !.res = DeleteFailure]
    ELSE IF ~Falsy(slot.existingApk.iconKey) THEN [slot EXCEPT !.pc = "delIcon"]
    ELSE [slot EXCEPT !.pc = "delRecord"]

\* Where the delete handler goes when the delete of the APK has been
\* answered: inside the try, on to the icon if the record has one; from the
\* catch, on to the catalog.
DeleteAfterApk(slot, ok) ==
    IF ok /\ ~Falsy(slot.existingApk.iconKey)
    THEN [slot EXCEPT !.pc = "delIcon"]
    ELSE [slot EXCEPT !.pc = "delRecord"]

\* try { await r2.send(DeleteObjectCommand(apk.apkKey)) ... } catch {}
DeleteDelApk(r) ==
    /\ rq[r].op = "remove" /\ rq[r].pc = "delApk"
    /\ \E ok \in BOOLEAN :
         LET key == rq[r].existingApk.apkKey
             slot == [rq[r] EXCEPT !.calls = Append(@, Call("delete", key, ok))]
         IN
         /\ blobs' = IF ok THEN blobs \ {key} ELSE blobs
         /\ Step(r, DeleteAfterApk(slot, ok))
    /\ UNCHANGED <<variant, catalog, now, nextId, started>>

\* try { ... await r2.send(DeleteObjectCommand(apk.iconKey)) } catch {}
DeleteDelIcon(r) ==
    /\ rq[r].op = "remove" /\ rq[r].pc = "delIcon"
    /\ \E ok \in BOOLEAN :
         LET key == rq[r].existingApk.iconKey
             slot == [rq[r] EXCEPT !.calls = Append(@, Call("delete", key, ok))]
         IN
         /\ blobs' = IF ok THEN blobs \ {key} ELSE blobs
         /\ Step(r, [slot EXCEPT !.pc = "delRecord"])
    /\ UNCHANGED <<variant, catalog, now, nextId, started>>

\* (Faulty variant of Without: the record stays in the collection.)
WithoutNothing(i) == catalog

\* The collection without the record of index i (0: the collection).
Without(i) == [j \in 1..(Len(catalog) - (IF i = 0 THEN 0 ELSE 1)) |->
                 IF i = 0 \/ j < i THEN catalog[j] ELSE catalog[j + 1]]

\* await Apk.findByIdAndDelete(req.params.id): null, not an error, when no
\* record has the id.
DeleteDelRecord(r) ==
    /\ rq[r].op = "remove" /\ rq[r].pc = "delRecord"
    /\ \E reached \in BOOLEAN :
         LET slot == [rq[r] EXCEPT !.calls = Append(@, Call("findByIdAndDelete", Null, reached))]
         IN
         IF reached
         THEN /\ catalog' = Without(IndexOfId(slot.req.id))
              /\ Step(r, [slot EXCEPT !.pc = "done",
                            !.res = [status |-> 200, error |-> <<>>,
                                     details |-> "APK deleted successfully",
                                     body |-> <<>>]])
         ELSE /\ catalog' = catalog
              /\ Step(r, [slot EXCEPT !.pc = "done", !.res = DeleteFailure])
    /\ UNCHANGED <<variant, blobs, now, nextId, started>>

-----------------------------------------------------------------------------
(* GET /apks and GET /apks/:id: the reads.  Neither route installs          *)
(* authMiddleware; the Authorization header of the request is not read.     *)

ListRequests == [auth : AuthHeaders]
GetRequests == [auth : AuthHeaders, id : Ids \cup {0}]

\* The catch block of a read handler.
ReadFailure == ErrorResponse(500, <<"Server error">>, "")

\* Apk.find().sort({ createdAt: -1 }): the records of the collection, the
\* latest created first; records created in the same millisecond come in
\* either order.
SortedByCreatedAt ==
    {s \in [1..Len(catalog) -> VisibleRecords] :
        /\ \A i \in 1..Len(catalog) : \E j \in 1..Len(catalog) : s[j] = catalog[i]
        /\ \A i, j \in 1..Len(catalog) : i < j => s[i].createdAt >= s[j].createdAt}

\* GET /apks is accepted; the handler awaits Apk.find().
ListStart(r) ==
    /\ CanAccept(r)
    /\ started' = started + 1
    /\ \E q \in ListRequests :
         Step(r, [Idle EXCEPT !.op = "list", !.req = q, !.pc = "find"])
    /\ UNCHANGED <<variant, catalog, blobs, now, nextId>>

\* await Apk.find().sort(...); res.json(apks)
ListFind(r) ==
    /\ rq[r].op = "list" /\ rq[r].pc = "find"
    /\ \E reached \in BOOLEAN :
         LET slot == [rq[r] EXCEPT !.calls = Append(@, Call("find", Null, reached))] IN
         IF reached
         THEN \E apks \in SortedByCreatedAt :
                Step(r, [slot EXCEPT !.pc = "done", !.res = RecordResponse(200, apks)])
         ELSE Step(r, [slot EXCEPT !.pc = "done", !.res = ReadFailure])
    /\ UNCHANGED <<variant, catalog, blobs, now, nextId, started>>

\* GET /apks/:id is accepted; the handler awaits Apk.findById.
GetStart(r) ==
    /\ CanAccept(r)
    /\ started' = started + 1
    /\ \E q \in GetRequests :
         Step(r, [Idle EXCEPT !.op = "get", !.req = q, !.pc = "find"])
    /\ UNCHANGED <<variant, catalog, blobs, now, nextId>>

\* await Apk.findById(req.params.id); res.json(apk).  The call throws the
\* CastError of an id that is no ObjectId, or the error of a store that is
\* not reached; the catch block answers either.
GetFind(r) ==
    /\ rq[r].op = "get" /\ rq[r].pc = "find"
    /\ \E reached \in BOOLEAN :
         LET ok == reached /\ ~ObjectIdCastFails(rq[r].req.id)
             slot == [rq[r] EXCEPT !.calls = Append(@, Call("findById", Null, ok))]
             i == IndexOfId(slot.req.id)
         IN
         IF ~ok
         THEN Step(r, [slot EXCEPT !.pc = "done", !.res = ReadFailure])
         ELSE IF i = 0
         THEN Step(r, [slot EXCEPT !.pc = "done",
                         !.res = ErrorResponse(404, <<"APK not found">>, "")])
         ELSE Step(r, [slot EXCEPT !.pc = "done", !.res = RecordResponse(200, catalog[i])])
    /\ UNCHANGED <<variant, catalog, blobs, now, nextId, started>>

-----------------------------------------------------------------------------
(* The clock, the initial states, the specifications. *)

\* Time passes between two steps of the handlers.
Tick ==
    /\ now < MaxClock
    /\ now' = now + 1
    /\ UNCHANGED <<variant, catalog, blobs, nextId, rq, started, last, issued, reissued>>

\* The records the catalog of the evolved revision holds when the server
\* starts (mongoose.connect opens the database of the deployment): one with
\* an icon and one without, their objects in the bucket.
OldApkKey(n) == StorageKey(Apks, 0, <<"o", DigitChar(n), ".", "k">>)
OldIconKey == StorageKey(Icons, 0, <<"o", ".", "p">>)

Stored(n, iconKey) ==
    [id |-> n, title |-> <<"O", DigitChar(n)>>, description |-> <<"o","l","d">>,
     version |-> <<"1",".","0">>, versionCode |-> 1,
     apkUrl |-> PublicUrl(OldApkKey(n)),
     iconUrl |-> IF iconKey = Null THEN Null ELSE PublicUrl(iconKey),
     apkKey |-> OldApkKey(n), iconKey |-> iconKey,
     packageName |-> <<"o","r","g">>, createdAt |-> 0]

InitEvolved ==
    /\ variant = "evolved"
    /\ catalog = <<Stored(1, OldIconKey), Stored(2, Null)>>
    /\ blobs = {OldApkKey(1), OldIconKey, OldApkKey(2)}
    /\ now = 1
    /\ nextId = 3
    /\ rq = [s \in Slots |-> Idle]
    /\ started = 0
    /\ last = 0
    /\ issued = {}
    /\ reissued = {}

NextEvolved ==
    \/ Tick
    \/ \E r \in Slots :
         \/ PostAccept(r) \/ PostStart(r)
         \/ PostPutApk(r) \/ PostPutIcon(r) \/ PostCreate(r)
         \/ PutAccept(r) \/ PutStart(r)
         \/ PutFind(r) \/ PutDelApk(r) \/ PutPutApk(r)
         \/ PutDelIcon(r) \/ PutPutIcon(r) \/ PutUpdate(r)
         \/ DeleteStart(r) \/ DeleteFind(r) \/ DeleteDelApk(r)
         \/ DeleteDelIcon(r) \/ DeleteDelRecord(r)

Spec == InitEvolved /\ [][NextEvolved]_vars

\* The JWT revision (src/server.js): publish and remove, on a catalog that
\* starts empty.
InitJwt ==
    /\ variant = "jwt"
    /\ catalog = <<>>
    /\ blobs = {}
    /\ now = 1
    /\ nextId = 1
    /\ rq = [s \in Slots |-> Idle]
    /\ started = 0
    /\ last = 0
    /\ issued = {}
    /\ reissued = {}

NextJwt ==
    \/ Tick
    \/ \E r \in Slots :
         \/ PostAccept(r) \/ PostStart(r)
         \/ PostPutApk(r) \/ PostPutIcon(r) \/ PostCreate(r)
         \/ DeleteStart(r) \/ DeleteFind(r) \/ DeleteDelApk(r)
         \/ DeleteDelIcon(r) \/ DeleteDelRecord(r)

SpecJwt == InitJwt /\ [][NextJwt]_vars

\* The evolved revision serving publish and replace requests only.
NextPublishReplace ==
    \/ Tick
    \/ \E r \in Slots :
         \/ PostAccept(r) \/ PostStart(r)
         \/ PostPutApk(r) \/ PostPutIcon(r) \/ PostCreate(r)
         \/ PutAccept(r) \/ PutStart(r)
         \/ PutFind(r) \/ PutDelApk(r) \/ PutPutApk(r)
         \/ PutDelIcon(r) \/ PutPutIcon(r) \/ PutUpdate(r)

SpecPublishReplace == InitEvolved /\ [][NextPublishReplace]_vars

\* The evolved revision serving every route of /apks: the reads and the
\* three writes.
NextServer ==
    \/ NextEvolved
    \/ \E r \in Slots : ListStart(r) \/ ListFind(r) \/ GetStart(r) \/ GetFind(r)

SpecServer == InitEvolved /\ [][NextServer]_vars

-----------------------------------------------------------------------------
(* The first revision (src/unnamed/part_000, first server): JWT             *)
(* authentication and the mongoose catalog; file names are not sanitized, a *)
(* publish is answered 200, and a remove has one try for all its calls.     *)

\* authMiddleware, then upload.fields(...).  Multer reads the body of a
\* multipart/form-data request and the handler runs in a later turn.  It
\* passes any other request on at once, req.files unset: the handler runs
\* in the same turn, and req.files.apk is a TypeError, caught.
FirstPostAccept(r) ==
    /\ CanAccept(r)
    /\ started' = started + 1
    /\ \E p \in PostRequests, multipart \in BOOLEAN :
         LET q == [multipart |-> multipart] @@ p
             slot == [Idle EXCEPT !.op = "publish", !.req = q]
         IN
         /\ multipart \/ (authMiddleware(p.auth) = "" /\ p.apk = Undefined
                                                      /\ p.icon = Undefined)
         /\ IF authMiddleware(q.auth) # ""
            THEN Step(r, [slot EXCEPT !.pc = "done",
                            !.res = ErrorResponse(401, <<authMiddleware(q.auth)>>, "")])
            ELSE IF ~q.multipart
            THEN Step(r, [slot EXCEPT !.pc = "done",
                            !.res = ErrorResponse(500, <<"Upload error">>, "")])
            ELSE Step(r, [slot EXCEPT !.pc = "multer"])
    /\ UNCHANGED <<variant, catalog, blobs, now, nextId>>

\* The handler, multer having parsed the request: the check of the APK, the
\* key of the APK from the name as it is; the handler then awaits the upload
\* of the APK.
FirstPostStart(r) ==
    /\ rq[r].op = "publish" /\ rq[r].pc = "multer"
    /\ IF rq[r].req.apk = Undefined
       THEN Step(r, [rq[r] EXCEPT !.pc = "done",
                       !.res = ErrorResponse(400, <<"APK required">>, "")])
       ELSE Step(r, [rq[r] EXCEPT !.pc = "putApk",
                       !.apkKey = StorageKey(Apks, now, rq[r].req.apk)])
    /\ UNCHANGED <<variant, catalog, blobs, now, nextId, started>>

\* await r2.send(PutObjectCommand(apkKey)); then the key of the icon and
\* its upload, or Apk.create.
FirstPostPutApk(r) ==
    /\ rq[r].op = "publish" /\ rq[r].pc = "putApk"
    /\ \E ok \in BOOLEAN :
         LET slot == [rq[r] EXCEPT !.calls = Append(@, Call("put", rq[r].apkKey, ok))] IN
         IF ~ok
         THEN /\ blobs' = blobs
              /\ Step(r, [slot EXCEPT !.pc = "done", !.res = ErrorResponse(500, <<"Upload error">>, "")])
         ELSE /\ blobs' = blobs \cup {slot.apkKey}
              /\ IF slot.req.icon # Undefined
                 THEN Step(r, [slot EXCEPT !.pc = "putIcon",
                                 !.iconKey = StorageKey(Icons, now, slot.req.icon)])
                 ELSE Step(r, [slot EXCEPT !.pc = "create", !.createdAt = now])
    /\ UNCHANGED <<variant, catalog, now, nextId, started>>

\* await r2.send(PutObjectCommand(iconKey))
FirstPostPutIcon(r) ==
    /\ rq[r].op = "publish" /\ rq[r].pc = "putIcon"
    /\ \E ok \in BOOLEAN :
         LET slot == [rq[r] EXCEPT !.calls = Append(@, Call("put", rq[r].iconKey, ok))] IN
         IF ok
         THEN /\ blobs' = blobs \cup {slot.iconKey}
              /\ Step(r, [slot EXCEPT !.pc = "create", !.createdAt = now])
         ELSE /\ blobs' = blobs
              /\ Step(r, [slot EXCEPT !.pc = "done", !.res = ErrorResponse(500, <<"Upload error">>, "")])
    /\ UNCHANGED <<variant, catalog, now, nextId, started>>

\* const newApk = await Apk.create({...}); res.json(newApk)
FirstPostCreate(r) ==
    /\ rq[r].op = "publish" /\ rq[r].pc = "create"
    /\ \E reached \in BOOLEAN :
         LET new == NewDocument(PostDocument(rq[r]), rq[r].createdAt)
             slot == [rq[r] EXCEPT !.calls = Append(@, Call("create", rq[r].apkKey, reached))]
         IN
         IF reached
         THEN /\ catalog' = Append(catalog, new)
              /\ nextId' = nextId + 1
              /\ Step(r, [slot EXCEPT !.pc = "done", !.res = RecordResponse(200, new)])
         ELSE /\ catalog' = catalog
              /\ nextId' = nextId
              /\ Step(r, [slot EXCEPT !.pc = "done", !.res = ErrorResponse(500, <<"Upload error">>, "")])
    /\ UNCHANGED <<variant, blobs, now, started>>

\* authMiddleware; the handler then awaits Apk.findById.
FirstDeleteStart(r) ==
    /\ CanAccept(r)
    /\ started' = started + 1
    /\ \E q \in DeleteRequests :
         LET slot == [Idle EXCEPT !.op = "remove", !.req = q] IN
         IF authMiddleware(q.auth) # ""
         THEN Step(r, [slot EXCEPT !.pc = "done",
                         !.res = ErrorResponse(401, <<authMiddleware(q.auth)>>, "")])
         ELSE Step(r, [slot EXCEPT !.pc = "find"])
    /\ UNCHANGED <<variant, catalog, blobs, now, nextId>>

\* await Apk.findById(req.params.id): it throws the CastError of an id that
\* is no ObjectId, or the error of a store that is not reached; the catch
\* block answers either.
FirstDeleteFind(r) ==
    /\ rq[r].op = "remove" /\ rq[r].pc = "find"
    /\ \E reached \in BOOLEAN :
         LET ok == reached /\ ~ObjectIdCastFails(rq[r].req.id)
             slot == [rq[r] EXCEPT !.calls = Append(@, Call("findById", Null, ok))]
             i == IndexOfId(slot.req.id)
         IN
         IF ~ok
         THEN Step(r, [slot EXCEPT !.pc = "done", !.res = DeleteFailure])
         ELSE IF i = 0
         THEN Step(r, [slot EXCEPT !.pc = "done",
                         !.res = ErrorResponse(404, <<"Not found">>, "")])
         ELSE Step(r, [slot EXCEPT !.pc = "delApk", !.existingApk = catalog[i]])
    /\ UNCHANGED <<variant, catalog, blobs, now, nextId, started>>

\* await r2.send(DeleteObjectCommand(apk.apkKey)): a failure goes to the
\* catch block of the handler, the record is kept.
FirstDeleteDelApk(r) ==
    /\ rq[r].op = "remove" /\ rq[r].pc = "delApk"
    /\ \E ok \in BOOLEAN :
         LET key == rq[r].existingApk.apkKey
             slot == [rq[r] EXCEPT !.calls = Append(@, Call("delete", key, ok))]
         IN
         IF ~ok
         THEN /\ blobs' = blobs
              /\ Step(r, [slot EXCEPT !.pc = "done", !.res = DeleteFailure])
         ELSE /\ blobs' = blobs \ {key}
              /\ Step(r, [slot EXCEPT !.pc = IF ~Falsy(slot.existingApk.iconKey)
                                             THEN "delIcon" ELSE "delRecord"])
    /\ UNCHANGED <<variant, catalog, now, nextId, started>>

\* if (apk.iconKey) await r2.send(DeleteObjectCommand(apk.iconKey))
FirstDeleteDelIcon(r) ==
    /\ rq[r].op = "remove" /\ rq[r].pc = "delIcon"
    /\ \E ok \in BOOLEAN :
         LET key == rq[r].existingApk.iconKey
             slot == [rq[r] EXCEPT !.calls = Append(@, Call("delete", key, ok))]
         IN
         IF ok
         THEN /\ blobs' = blobs \ {key}
              /\ Step(r, [slot EXCEPT !.pc = "delRecord"])
         ELSE /\ blobs' = blobs
              /\ Step(r, [slot EXCEPT !.pc = "done", !.res = DeleteFailure])
    /\ UNCHANGED <<variant, catalog, now, nextId, started>>

\* await Apk.findByIdAndDelete(req.params.id); res.json({ message })
FirstDeleteDelRecord(r) ==
    /\ rq[r].op = "remove" /\ rq[r].pc = "delRecord"
    /\ \E reached \in BOOLEAN :
         LET slot == [rq[r] EXCEPT !.calls = Append(@, Call("findByIdAndDelete", Null, reached))]
         IN
         IF reached
         THEN /\ catalog' = Without(IndexOfId(slot.req.id))
              /\ Step(r, [slot EXCEPT !.pc = "done",
                            !.res = [status |-> 200, error |-> <<>>,
                                     details |-> "Deleted", body |-> <<>>]])
         ELSE /\ catalog' = catalog
              /\ Step(r, [slot EXCEPT !.pc = "done", !.res = DeleteFailure])
    /\ UNCHANGED <<variant, blobs, now, nextId, started>>

\* The first revision as it starts, on an empty collection.
InitFirst ==
    /\ variant = "first"
    /\ catalog = <<>>
    /\ blobs = {}
    /\ now = 1
    /\ nextId = 1
    /\ rq = [s \in Slots |-> Idle]
    /\ started = 0
    /\ last = 0
    /\ issued = {}
    /\ reissued = {}

\* GET /apks of the first revision is the handler of the later ones.
NextFirst ==
    \/ Tick
    \/ \E r \in Slots :
         \/ ListStart(r) \/ ListFind(r)
         \/ FirstPostAccept(r) \/ FirstPostStart(r) \/ FirstPostPutApk(r) \/ FirstPostPutIcon(r)
         \/ FirstPostCreate(r)
         \/ FirstDeleteStart(r) \/ FirstDeleteFind(r) \/ FirstDeleteDelApk(r)
         \/ FirstDeleteDelIcon(r) \/ FirstDeleteDelRecord(r)

SpecFirst == InitFirst /\ [][NextFirst]_vars

-----------------------------------------------------------------------------
(* What the claims speak of. *)

\* The handler of slot r has just sent its response.
Responded(r) == last = r /\ rq[r].pc = "done"

\* The store calls the handler of a slot has made, by name.
CallsNamed(slot, names) == {i \in 1..Len(slot.calls) : slot.calls[i].call \in names}

\* No store call of the handler has failed from the n-th on.
AllOkFrom(slot, n) == \A i \in n..Len(slot.calls) : slot.calls[i].ok

\* decodeURIComponent, as a client reads a URL: %XY is the character of
\* code XY.
HexChar(h) ==
    CHOOSE c \in {" ", "#", "$", "%", "&", "+", ",", "/", ":", ";", "<", "=", ">",
                  "?", "@", "[", "]", "^", "{", "|", "}"} : AsciiHex(c) = h
RECURSIVE decodeURIComponent(_)
decodeURIComponent(s) ==
    IF s = <<>> THEN <<>>
    ELSE IF Head(s) = "%"
         THEN <<HexChar(<<s[2], s[3]>>)>> \o decodeURIComponent(SubSeq(s, 4, Len(s)))
         ELSE <<Head(s)>> \o decodeURIComponent(Tail(s))

\* The key a client gets from a public URL: the URL without the public base
\* and the slash, decoded.
KeyOfUrl(url) == decodeURIComponent(SubSeq(url, Len(PublicBase) + 2, Len(url)))

IsPublicUrl(url) ==
    /\ Len(url) > Len(PublicBase)
    /\ SubSeq(url, 1, Len(PublicBase) + 1) = PublicBase \o <<"/">>

-----------------------------------------------------------------------------
(* C1.  In every state the evolved revision reaches by publish and replace  *)
(* requests, whatever store call fails, every apkKey and every non-null     *)
(* iconKey of a catalog record names an object present in the bucket.       *)
C1_NoDanglingReference == ReferencedKeys \subseteq blobs

\* The same of the states in which no request is in flight.
C1_NoDanglingReferenceAtRest ==
    (\A s \in Slots : Free(s)) => ReferencedKeys \subseteq blobs

-----------------------------------------------------------------------------
(* C2.  A publish whose upload of the APK fails creates no record: the      *)
(* step in which the upload fails leaves the catalog as it was, the handler *)
(* answers with a failure, and it has made no call to the catalog.          *)
C2_ApkUploadFails(r) ==
    /\ rq[r].op = "publish" /\ rq[r].pc = "putApk"
    /\ rq'[r].op = "publish" /\ Len(rq'[r].calls) = 1
    /\ rq'[r].calls[1] = Call("put", rq[r].apkKey, FALSE)

C2_NoRecordWhenApkUploadFails ==
    [][\A r \in Slots :
         C2_ApkUploadFails(r) =>
           /\ catalog' = catalog
           /\ rq'[r].pc = "done"
           /\ rq'[r].res.status = 500
           /\ CallsNamed(rq'[r], {"create", "findByIdAndUpdate"}) = {}]_vars

C2_Witness ==
    \E r \in Slots :
      /\ Responded(r) /\ rq[r].op = "publish"
      /\ rq[r].calls = <<Call("put", rq[r].apkKey, FALSE)>>
      /\ rq[r].res.status = 500

-----------------------------------------------------------------------------
(* C3.  A publish that lacks an input the catalog requires of a record      *)
(* (packageName, description, the APK file, any path the schema marks       *)
(* required) is answered 400 before any store is touched.                   *)
LacksRequired(q) ==
    \/ Falsy(q.body.packageName)
    \/ Falsy(q.body.description)
    \/ q.apk = Undefined
    \/ \E path \in RequiredPaths(variant) : Falsy(q.body[path])

C3_ValidationBeforeAnyStore ==
    \A r \in Slots :
      (rq[r].op = "publish" /\ authMiddleware(rq[r].req.auth) = ""
         /\ LacksRequired(rq[r].req))
        => /\ rq[r].calls = <<>>
           /\ rq[r].pc = "done" => rq[r].res.status = 400

-----------------------------------------------------------------------------
(* C4.  A publish whose APK is uploaded and whose icon upload fails is not  *)
(* aborted: the handler goes on to the catalog without an icon, and when    *)
(* the record is created the answer is 201 with iconKey and iconUrl null.   *)
C4_IconUploadFailureTolerated ==
    \A r \in Slots :
      (rq[r].op = "publish" /\ Len(rq[r].calls) >= 2
         /\ rq[r].calls[1].ok /\ ~rq[r].calls[2].ok /\ rq[r].calls[2].call = "put")
        => \/ rq[r].pc = "create"
           \/ /\ rq[r].pc = "done" /\ Len(rq[r].calls) = 3
              /\ rq[r].calls[3].ok =>
                   /\ rq[r].res.status = 201
                   /\ rq[r].res.body.iconKey = Null
                   /\ rq[r].res.body.iconUrl = Null

-----------------------------------------------------------------------------
(* C5.  A publish whose uploads succeeded and whose Apk.create fails        *)
(* answers with a failure; the step leaves the catalog as it was (readers   *)
(* see no record of this publish) and the bucket as it was, and the handler *)
(* has issued no delete.                                                    *)
C5_CreateFails(r) ==
    /\ rq[r].op = "publish" /\ rq[r].pc = "create"
    /\ rq'[r].op = "publish" /\ Len(rq'[r].calls) = Len(rq[r].calls) + 1
    /\ ~rq'[r].calls[Len(rq'[r].calls)].ok

C5_CreateFailureLeavesOrphans ==
    [][\A r \in Slots :
         C5_CreateFails(r) =>
           /\ rq'[r].pc = "done"
           /\ rq'[r].res.status = 500
           /\ catalog' = catalog
           /\ blobs' = blobs
           /\ CallsNamed(rq'[r], {"delete"}) = {}]_vars

C5_Witness ==
    \E r \in Slots :
      /\ Responded(r) /\ rq[r].op = "publish"
      /\ Len(rq[r].calls) = 3
      /\ rq[r].calls[1].ok /\ rq[r].calls[2].ok
      /\ rq[r].calls[3] = Call("create", rq[r].apkKey, FALSE)
      /\ rq[r].res.status = 500
      /\ {rq[r].apkKey, rq[r].iconKey} \subseteq blobs
      /\ \A i \in 1..Len(catalog) : catalog[i].apkKey # rq[r].apkKey

-----------------------------------------------------------------------------
(* C6.  When a publish answers with success, the apkUrl of the record it    *)
(* returns is the public base, a slash and the URL-encoded apkKey, and the  *)
(* key a client decodes from it names an object present in the bucket.      *)
C6_UrlOfKey(record) ==
    /\ record.apkUrl = PublicBase \o <<"/">> \o encodeURIComponent(record.apkKey)
    /\ KeyOfUrl(record.apkUrl) = record.apkKey

C6_ReturnedUrlNamesStoredObject ==
    \A r \in Slots :
      (Responded(r) /\ rq[r].op = "publish" /\ rq[r].res.status = 201)
        => /\ C6_UrlOfKey(rq[r].res.body)
           /\ KeyOfUrl(rq[r].res.body.apkUrl) \in blobs

\* As amended: the object is there when no other upload was given the same
\* key (the same sanitized name in the same millisecond).
C6_ReturnedUrlNamesStoredObjectUnlessKeyShared ==
    \A r \in Slots :
      (Responded(r) /\ rq[r].op = "publish" /\ rq[r].res.status = 201)
        => /\ C6_UrlOfKey(rq[r].res.body)
           /\ rq[r].res.body.apkKey \notin reissued
                => KeyOfUrl(rq[r].res.body.apkUrl) \in blobs

C6_Witness ==
    \E r \in Slots :
      /\ Responded(r) /\ rq[r].op = "publish" /\ rq[r].res.status = 201
      /\ rq[r].res.body.apkKey = StorageKey(Apks, 1, <<"a","_","1">>)
      /\ rq[r].req.apk = <<"a"," ","1">>
      /\ rq[r].res.body.apkKey \notin reissued
      /\ rq[r].res.body.apkKey \in blobs

-----------------------------------------------------------------------------
(* C7.  A replace of an id that no record has answers 404 at once: the     *)
(* step leaves both stores as they were, and the handler has made no other  *)
(* store call.                                                              *)

\* The findById of the replace of slot r is answered in this step, the
\* catalog being reached, and no record has the id of the request.
C7_FindsNoRecord(r) ==
    /\ rq[r].op = "replace" /\ rq[r].pc = "find"
    /\ rq'[r].op = "replace" /\ Len(rq'[r].calls) = 1
    /\ rq'[r].calls[1].ok \/ ObjectIdCastFails(rq[r].req.id)
    /\ \A i \in 1..Len(catalog) : catalog[i].id # rq[r].req.id

\* C7: a replace of an id that has no record in the catalog ends at its
\* findById with 404 "APK not found"; no delete, no upload and no update is
\* issued, and the catalog and the bucket are as before.
C7_ReplaceOfUnknownIdAborts ==
    [][\A r \in Slots :
         C7_FindsNoRecord(r) =>
           /\ rq'[r].pc = "done"
           /\ rq'[r].res.status = 404
           /\ CallsNamed(rq'[r], {"delete", "put", "findByIdAndUpdate"}) = {}
           /\ catalog' = catalog
           /\ blobs' = blobs]_vars

-----------------------------------------------------------------------------
(* C8.  In a replace with a new APK, a failed delete of the old apkKey does *)
(* not abort: the handler goes on to upload the new APK under a key it      *)
(* generates, and when no later call fails it answers 200 with the record   *)
(* updated to the new apkKey and apkUrl.                                    *)
C8_OldApkDeleteFailed(slot) ==
    /\ slot.op = "replace" /\ Len(slot.calls) >= 2
    /\ slot.calls[2] = Call("delete", slot.existingApk.apkKey, FALSE)

C8_ApkDeleteFailureTolerated ==
    \A r \in Slots :
      C8_OldApkDeleteFailed(rq[r]) =>
        /\ \E t \in 1..now :
             rq[r].apkKey = StorageKey(Apks, t, Sanitize(rq[r].req.apk))
        /\ Len(rq[r].calls) = 2 => rq[r].pc = "putApk"
        /\ Len(rq[r].calls) >= 3 => rq[r].calls[3].call = "put"
                                      /\ rq[r].calls[3].key = rq[r].apkKey
        /\ (rq[r].pc = "done" /\ AllOkFrom(rq[r], 3)) =>
             /\ rq[r].res.status = 200
             /\ rq[r].res.body.apkKey = rq[r].apkKey
             /\ rq[r].res.body.apkUrl = PublicUrl(rq[r].apkKey)
             /\ Responded(r) => rq[r].res.body \in VisibleRecords

C8_Witness ==
    \E r \in Slots :
      /\ Responded(r) /\ C8_OldApkDeleteFailed(rq[r])
      /\ rq[r].res.status = 200
      /\ rq[r].res.body.apkKey = rq[r].apkKey
      /\ rq[r].res.body.apkKey # rq[r].existingApk.apkKey
      /\ rq[r].res.body \in VisibleRecords
      /\ {rq[r].apkKey, rq[r].existingApk.apkKey} \subseteq blobs

-----------------------------------------------------------------------------
(* C9.  In a replace the icon and the APK rotate independently.  With a new *)
(* icon and no new APK the handler makes no delete or put of an APK key     *)
(* and its update leaves apkKey and apkUrl as they were; with a new APK and *)
(* no new icon it makes no delete or put of an icon key and its update      *)
(* leaves iconKey and iconUrl as they were; and a failed delete of the old  *)
(* icon does not keep the new icon from being uploaded and recorded.        *)
InNamespace(key, ns) == Len(key) > Len(ns) /\ SubSeq(key, 1, Len(ns) + 1) = ns \o <<"/">>

\* The handler has made no delete or put of a key of the namespace.
C9_Untouched(slot, ns) ==
    \A i \in CallsNamed(slot, {"delete", "put"}) : ~InNamespace(slot.calls[i].key, ns)

\* The update of slot r succeeds in this step.
C9_Updates(r) ==
    /\ rq[r].op = "replace" /\ rq[r].pc = "update"
    /\ rq'[r].op = "replace" /\ rq'[r].pc = "done" /\ rq'[r].res.status = 200

\* The position of the failed delete of the old icon among the calls, if any.
C9_IconDeleteFailedAt(slot) ==
    {i \in CallsNamed(slot, {"delete"}) :
        slot.calls[i] = Call("delete", slot.existingApk.iconKey, FALSE)}

C9_IconIndependentOfApk ==
    [][\A r \in Slots :
         LET slot == rq'[r]
             i == IndexOfId(rq[r].req.id)
         IN
         /\ (slot.op = "replace" /\ slot.req.apk = Undefined) =>
              /\ C9_Untouched(slot, Apks)
              /\ C9_Updates(r) => /\ catalog'[i].apkKey = catalog[i].apkKey
                                  /\ catalog'[i].apkUrl = catalog[i].apkUrl
         /\ (slot.op = "replace" /\ slot.req.icon = Undefined) =>
              /\ C9_Untouched(slot, Icons)
              /\ C9_Updates(r) => /\ catalog'[i].iconKey = catalog[i].iconKey
                                  /\ catalog'[i].iconUrl = catalog[i].iconUrl
         /\ slot.op = "replace" =>
              \A k \in C9_IconDeleteFailedAt(slot) :
                /\ Len(slot.calls) = k => slot.pc = "putIcon"
                /\ Len(slot.calls) > k => slot.calls[k + 1] = Call("put", slot.iconKey,
                                                                 slot.calls[k + 1].ok)
                /\ (slot.pc = "done" /\ AllOkFrom(slot, k + 1)) =>
                     /\ slot.res.status = 200
                     /\ slot.res.body.iconKey = slot.iconKey
                     /\ slot.res.body.iconUrl = PublicUrl(slot.iconKey)
                     /\ last' = r => slot.res.body = catalog'[i]]_vars

C9_Witness ==
    \E r \in Slots :
      /\ Responded(r) /\ rq[r].op = "replace"
      /\ rq[r].req.apk = Undefined /\ rq[r].req.icon # Undefined
      /\ C9_IconDeleteFailedAt(rq[r]) # {}
      /\ rq[r].res.status = 200
      /\ rq[r].res.body.iconKey = rq[r].iconKey
      /\ rq[r].res.body.apkKey = rq[r].existingApk.apkKey
      /\ C9_Untouched(rq[r], Apks)
      /\ rq[r].res.body \in VisibleRecords

-----------------------------------------------------------------------------
(* C10.  A replace that sends a title and nothing else makes no call to    *)
(* the bucket, and its update gives the record the title sent and leaves    *)
(* every other field as it was.                                             *)

\* The update of the replace of slot r succeeds in this step; the request
\* sent a title, no other field and no file.
C10_TitleOnlyUpdate(r) ==
    /\ C9_Updates(r)
    /\ rq[r].req.body = [NoPatch EXCEPT !.title = rq[r].req.body.title]
    /\ rq[r].req.body.title # Undefined
    /\ rq[r].req.apk = Undefined /\ rq[r].req.icon = Undefined

\* The record takes the title sent, nothing else of it changes, the record
\* is the response, and the bucket was not called.
C10_TitleApplied(r) ==
    LET i == IndexOfId(rq[r].req.id) IN
    /\ catalog' = [catalog EXCEPT ![i] = [@ EXCEPT !.title = rq[r].req.body.title]]
    /\ rq'[r].res.body = catalog'[i]
    /\ blobs' = blobs
    /\ CallsNamed(rq'[r], {"delete", "put"}) = {}

\* C10: a replace applies only the fields supplied: when it sends a title
\* and no file, the record holds that title after the update, every other
\* field of the record is as it was, and no call to the bucket is made.
C10_OnlyTitleChanges ==
    [][\A r \in Slots : C10_TitleOnlyUpdate(r) => C10_TitleApplied(r)]_vars

-----------------------------------------------------------------------------
(* C11.  When the final findByIdAndUpdate of a replace throws, the handler  *)
(* answers 500, the step changes no record of the catalog, and nothing is   *)
(* rolled back in the bucket: the step changes no object, the objects the   *)
(* handler uploaded are there and the old objects it deleted are not.       *)
LastCall(slot) == slot.calls[Len(slot.calls)]

C11_UpdateFails(r) ==
    /\ rq[r].op = "replace" /\ rq[r].pc = "update"
    /\ last' = r /\ rq'[r].pc = "done"
    /\ LastCall(rq'[r]) = Call("findByIdAndUpdate", Null, FALSE)

C11_FailedUpdateKeepsRecordAndBlobs ==
    [][\A r \in Slots :
         C11_UpdateFails(r) =>
           /\ rq'[r].res.status = 500
           /\ rq'[r].res.error = <<"Update failed">>
           /\ catalog' = catalog
           /\ blobs' = blobs
           /\ \A n \in CallsNamed(rq'[r], {"put"}) :
                rq'[r].calls[n].ok => rq'[r].calls[n].key \in blobs'
           /\ \A n \in CallsNamed(rq'[r], {"delete"}) :
                rq'[r].calls[n].ok =>
                  \/ rq'[r].calls[n].key \notin blobs'
                  \/ rq'[r].calls[n].key \in KeysOf(rq'[r])]_vars

C11_Witness ==
    \E r \in Slots :
      /\ Responded(r) /\ rq[r].op = "replace" /\ rq[r].res.status = 500
      /\ Len(rq[r].calls) = 4
      /\ rq[r].calls = <<Call("findById", Null, TRUE),
                         Call("delete", rq[r].existingApk.apkKey, TRUE),
                         Call("put", rq[r].apkKey, TRUE),
                         Call("findByIdAndUpdate", Null, FALSE)>>
      /\ HasRecord(rq[r].req.id)
      /\ catalog[IndexOfId(rq[r].req.id)] = rq[r].existingApk
      /\ rq[r].apkKey \in blobs
      /\ rq[r].existingApk.apkKey \notin blobs

-----------------------------------------------------------------------------
(* C12 speaks of the in-memory revision too: it follows that revision,     *)
(* below.                                                                   *)

-----------------------------------------------------------------------------
(* C13.  A remove of an id that no record has answers 404: the handler     *)
(* ends there, having called neither the bucket nor a write of the catalog, *)
(* and the step leaves both stores as they were.                            *)

\* The findById of the remove of slot r is answered in this step, the
\* catalog being reached, and no record has the id of the request.
C13_FindsNoRecord(r) ==
    /\ rq[r].op = "remove" /\ rq[r].pc = "find"
    /\ rq'[r].op = "remove" /\ Len(rq'[r].calls) = 1
    /\ rq'[r].calls[1].ok \/ ObjectIdCastFails(rq[r].req.id)
    /\ \A i \in 1..Len(catalog) : catalog[i].id # rq[r].req.id

\* C13: a remove of an id that has no record in the catalog ends at its
\* findById with 404 "APK not found"; no delete of an object and no delete
\* of a record is issued, and the catalog and the bucket are as before.
C13_RemoveOfUnknownIdAborts ==
    [][\A r \in Slots :
         C13_FindsNoRecord(r) =>
           /\ rq'[r].pc = "done"
           /\ rq'[r].res.status = 404
           /\ rq'[r].res.error = <<"APK not found">>
           /\ CallsNamed(rq'[r], {"delete", "put", "findByIdAndDelete"}) = {}
           /\ catalog' = catalog
           /\ blobs' = blobs]_vars

-----------------------------------------------------------------------------
(* C14.  The step in which a remove of an id answers 200 leaves the id     *)
(* gone: no record of the catalog has it and no answer of GET /apks/:id or *)
(* GET /apks shows it.  And an id that is gone stays gone in every step,   *)
(* whatever other requests on the id are in flight: so from the answer of  *)
(* the remove on, every read reports no record of the id.                  *)
C14_RemoveSucceeded(id) ==
    \E r \in Slots :
      /\ Responded(r) /\ rq[r].op = "remove" /\ rq[r].req.id = id
      /\ rq[r].res.status = 200

C14_ReadShows(id) ==
    \E r \in Slots :
      /\ Responded(r)
      /\ \/ rq[r].op = "get" /\ rq[r].req.id = id /\ rq[r].res.status # 404
              /\ rq[r].calls = <<Call("findById", Null, TRUE)>>
         \/ rq[r].op = "list" /\ rq[r].res.status = 200
              /\ \E i \in 1..Len(rq[r].res.body) : rq[r].res.body[i].id = id

\* The catalog has assigned the id, and nothing shows a record of it.
C14_Gone(id) == id < nextId /\ ~HasRecord(id) /\ ~C14_ReadShows(id)

C14_RemovedStaysRemoved ==
    [][\A id \in Ids :
         /\ C14_RemoveSucceeded(id)' => C14_Gone(id)'
         /\ C14_Gone(id) => C14_Gone(id)']_vars

C14_Witness ==
    \E r \in Slots :
      /\ Responded(r) /\ rq[r].op = "replace" /\ rq[r].req.id = 1
      /\ rq[r].existingApk = Stored(1, OldIconKey)
      /\ LastCall(rq[r]) = Call("findByIdAndUpdate", Null, FALSE)
      /\ ~HasRecord(1)
      /\ rq[r].res.status = 500

-----------------------------------------------------------------------------
(* C15.  In a remove, a failed delete of the APK object or of the icon      *)
(* object does not end the handler: it goes on to findByIdAndDelete, and    *)
(* when that succeeds the record is gone and the answer is 200.             *)
C15_BlobDeleteFailed(slot) ==
    /\ slot.op = "remove"
    /\ \E n \in CallsNamed(slot, {"delete"}) : ~slot.calls[n].ok

C15_BlobDeleteFailureTolerated ==
    \A r \in Slots :
      C15_BlobDeleteFailed(rq[r]) =>
        /\ rq[r].pc \in {"delRecord", "done"}
        /\ rq[r].pc = "done" =>
             /\ LastCall(rq[r]).call = "findByIdAndDelete"
             /\ LastCall(rq[r]).ok =>
                  /\ rq[r].res.status = 200
                  /\ Responded(r) => ~HasRecord(rq[r].req.id)

C15_Witness ==
    \E r \in Slots :
      /\ Responded(r) /\ rq[r].op = "remove" /\ rq[r].res.status = 200
      /\ rq[r].calls = <<Call("findById", Null, TRUE),
                         Call("delete", OldApkKey(1), TRUE),
                         Call("delete", OldIconKey, FALSE),
                         Call("findByIdAndDelete", Null, TRUE)>>
      /\ ~HasRecord(1)
      /\ OldIconKey \in blobs

-----------------------------------------------------------------------------
(* C16.  In a remove of a record that has an icon, once the delete of the   *)
(* APK object has been answered, with success or with failure, the handler  *)
(* issues the delete of the icon object before it goes on to the catalog.   *)
C16_ApkDeleteAnswered(slot) ==
    /\ slot.op = "remove" /\ Len(slot.calls) >= 2
    /\ slot.calls[2].call = "delete"
    /\ ~Falsy(slot.existingApk.iconKey)

C16_IconDeleteAlwaysIssued ==
    \A r \in Slots :
      (C16_ApkDeleteAnswered(rq[r]) /\ rq[r].pc \in {"delRecord", "done"}) =>
        \E n \in CallsNamed(rq[r], {"delete"}) :
          rq[r].calls[n].key = rq[r].existingApk.iconKey

-----------------------------------------------------------------------------
(* C17.  A publish, replace or remove request with no Authorization header, *)
(* or with a token of another signature or an expired one, is answered 401  *)
(* in the step that accepts it: its handler makes no store call and both    *)
(* stores stay as they were.  A read is served whatever header it carries:  *)
(* its handler goes to its query and never answers 401.                     *)
C17_Accepted(r) ==
    /\ started' = started + 1
    /\ last' = r
    /\ rq'[r].pc # "idle"

C17_Unauthenticated(q) ==
    \/ q.auth = <<>>
    \/ q.auth[2].key # Secret
    \/ q.auth[2].exp <= now

C17_Rejected(r) ==
    /\ rq'[r].pc = "done"
    /\ rq'[r].res.status = 401
    /\ rq'[r].calls = <<>>
    /\ catalog' = catalog
    /\ blobs' = blobs

C17_AuthBeforeSideEffects ==
    [][\A r \in Slots :
         /\ (C17_Accepted(r) /\ rq'[r].op \in {"publish", "replace", "remove"}
               /\ C17_Unauthenticated(rq'[r].req)) => C17_Rejected(r)
         /\ (C17_Accepted(r) /\ rq'[r].op \in {"list", "get"}) => rq'[r].pc = "find"
         /\ (last' = r /\ rq'[r].op \in {"list", "get"} /\ rq'[r].pc = "done") =>
              /\ rq'[r].res.status \in {200, 404, 500}
              /\ LastCall(rq'[r]).ok => rq'[r].res.status \in {200, 404}]_vars

C17_Witness ==
    \E r \in Slots :
      /\ Responded(r) /\ rq[r].op = "publish"
      /\ rq[r].req.auth = <<"Bearer", ForgedToken>>
      /\ rq[r].req.body = CompleteBody
      /\ rq[r].req.apk # Undefined /\ rq[r].req.icon # Undefined
      /\ rq[r].res = ErrorResponse(401, <<"Invalid token">>, "")
      /\ rq[r].calls = <<>>
      /\ started = 2

-----------------------------------------------------------------------------
(* C18.  In every state, every record a reader can see has its keys and     *)
(* URLs paired: an apkKey, and the apkUrl made of the public base, a slash  *)
(* and the URL-encoded apkKey; an iconKey and iconUrl both null, or an      *)
(* iconKey and the iconUrl made from it the same way.  So has the document  *)
(* a publish hands to Apk.create, and the record a publish or a replace     *)
(* answers with.                                                            *)
C18_UrlOf(key) == PublicBase \o <<"/">> \o encodeURIComponent(key)

C18_Paired(record) ==
    /\ ~Falsy(record.apkKey)
    /\ record.apkUrl = C18_UrlOf(record.apkKey)
    /\ \/ record.iconKey = Null /\ record.iconUrl = Null
       \/ ~Falsy(record.iconKey) /\ record.iconUrl = C18_UrlOf(record.iconKey)

C18_KeysAndUrlsPaired ==
    /\ \A record \in VisibleRecords : C18_Paired(record)
    /\ \A r \in Slots :
         /\ (rq[r].op = "publish" /\ rq[r].pc = "create") => C18_Paired(PostDocument(rq[r]))
         /\ (rq[r].op \in {"publish", "replace"} /\ rq[r].pc = "done"
               /\ rq[r].res.status \in {200, 201}) => C18_Paired(rq[r].res.body)

C18_Witness ==
    \E r \in Slots :
      /\ Responded(r) /\ rq[r].op = "replace" /\ rq[r].res.status = 200
      /\ rq[r].req.id = 2 /\ rq[r].existingApk.iconKey = Null
      /\ rq[r].res.body.iconKey = StorageKey(Icons, now, <<"i",".","p">>)
      /\ rq[r].res.body.iconUrl = C18_UrlOf(rq[r].res.body.iconKey)
      /\ rq[r].res.body.apkKey # OldApkKey(2)
      /\ rq[r].res.body \in VisibleRecords

-----------------------------------------------------------------------------
(* C19.  A publish or replace that fails on a call to the bucket reports an *)
(* error kind other than the one the same handler reports when its final    *)
(* catalog write fails, and other than a validation, authentication or      *)
(* not-found answer.  The kind of an answer is what the handler decides:    *)
(* its status and its error field (details is the message of whatever was   *)
(* thrown, passed through).                                                 *)
C19_Kind(res) == <<res.status, res.error>>

C19_CatalogFaultKind(op) ==
    IF op = "publish" THEN C19_Kind(PostFailure(CatalogFault))
    ELSE C19_Kind(PutFailure(CatalogFault))

C19_StorageFaultReported(r) ==
    /\ Responded(r) /\ rq[r].op \in {"publish", "replace"}
    /\ rq[r].calls # <<>>
    /\ LastCall(rq[r]).call = "put" /\ ~LastCall(rq[r]).ok

C19_FaultKindsDistinct ==
    \A r \in Slots :
      C19_StorageFaultReported(r) =>
        /\ rq[r].res.status \notin {400, 401, 404}
        /\ C19_Kind(rq[r].res) # C19_CatalogFaultKind(rq[r].op)

-----------------------------------------------------------------------------
(* C20.  The storage key a handler generates is the namespace, a slash, the *)
(* decimal digits of Date.now() at that step, a dash, and the file name     *)
(* with every character outside [A-Za-z0-9.-] turned into an underscore.    *)
(* And a publish of "app v1.apk" with no icon is answered with its record,  *)
(* visible to readers, whose apkKey is apks/<t>-app_v1.apk for a time t up  *)
(* to now, and whose iconKey and iconUrl are null.                          *)
C20_Allowed == Lower \cup Upper \cup Digit \cup {".", "-"}

C20_Cleaned(name, clean) ==
    /\ Len(clean) = Len(name)
    /\ \A i \in 1..Len(name) :
         /\ name[i] \in C20_Allowed => clean[i] = name[i]
         /\ name[i] \notin C20_Allowed => clean[i] = "_"

C20_Digits(t) == CASE t = 1 -> <<"1">> [] t = 2 -> <<"2">> [] t = 3 -> <<"3">>
                   [] t = 4 -> <<"4">> [] OTHER -> <<>>

C20_IsKey(key, ns, t, name) ==
    LET prefix == ns \o <<"/">> \o C20_Digits(t) \o <<"-">> IN
    /\ Len(key) = Len(prefix) + Len(name)
    /\ SubSeq(key, 1, Len(prefix)) = prefix
    /\ C20_Cleaned(name, SubSeq(key, Len(prefix) + 1, Len(key)))

\* The handler of slot r generates, in this step, the key of field f.
C20_Generates(r, f) ==
    /\ last' = r
    /\ rq'[r].pc # "idle"
    /\ rq'[r][f] # Null
    /\ \/ started' = started + 1
       \/ ~Free(r) /\ rq[r][f] = Null

\* The publish of the scenario, answered: a valid token, every field the
\* handler asks for, the file "app v1.apk", no icon, and no call of the
\* handler met a fault of the bucket or of the catalog connection.
C20_ScenarioAnswer(slot) ==
    /\ slot.op = "publish" /\ slot.pc = "done"
    /\ slot.req.apk = AppV1Apk /\ slot.req.icon = Undefined
    /\ authMiddleware(slot.req.auth) = ""
    /\ PostValidation(slot.req) = ""
    /\ \A i \in CallsNamed(slot, {"put"}) : slot.calls[i].ok
    /\ slot.res.details \notin {StorageFault, CatalogFault}

\* The policy alone: every key a publish or a replace generates is made of
\* the namespace, the clock at that step and the sanitized file name.
C20_GeneratedKeys ==
    [][\A r \in Slots :
         /\ C20_Generates(r, "apkKey") =>
              C20_IsKey(rq'[r].apkKey, <<"a","p","k","s">>, now, rq'[r].req.apk)
         /\ C20_Generates(r, "iconKey") =>
              C20_IsKey(rq'[r].iconKey, <<"i","c","o","n","s">>, now, rq'[r].req.icon)]_vars

\* C20: the key generated for an upload is the namespace, "/", the
\* millisecond of the clock, "-", and the file name with every character
\* outside [A-Za-z0-9.-] replaced by "_"; and the publish of "app v1.apk"
\* without an icon at time t gives a record whose apkKey is
\* apks/<t>-app_v1.apk and whose iconKey and iconUrl are null.
C20_KeyFormat ==
    [][\A r \in Slots :
         /\ C20_Generates(r, "apkKey") =>
              C20_IsKey(rq'[r].apkKey, <<"a","p","k","s">>, now, rq'[r].req.apk)
         /\ C20_Generates(r, "iconKey") =>
              C20_IsKey(rq'[r].iconKey, <<"i","c","o","n","s">>, now, rq'[r].req.icon)
         /\ (last' = r /\ C20_ScenarioAnswer(rq'[r])) =>
              /\ rq'[r].res.status = 201
              /\ \E t \in 1..now :
                   rq'[r].res.body.apkKey =
                     <<"a","p","k","s","/">> \o C20_Digits(t)
                       \o <<"-","a","p","p","_","v","1",".","a","p","k">>
              /\ rq'[r].res.body.iconKey = Null
              /\ rq'[r].res.body.iconUrl = Null
              /\ rq'[r].res.body \in {catalog'[i] : i \in 1..Len(catalog')}]_vars


\* A publish request of the evolved revision that is complete in the eyes of
\* the handler (valid token, packageName, description, an APK file) has been
\* answered, and no call to the bucket or to the catalog of its handler met
\* a fault of the store: an upload that failed, or a catalog not reached.
C27_CompletePublishNoFault(r) ==
    /\ Responded(r) /\ rq[r].op = "publish" /\ variant = "evolved"
    /\ authMiddleware(rq[r].req.auth) = ""
    /\ PostValidation(rq[r].req) = ""
    /\ \A i \in CallsNamed(rq[r], {"put"}) : rq[r].calls[i].ok
    /\ rq[r].res.details \notin {StorageFault, CatalogFault}

\* C27: a publish of the evolved revision with a valid token, a packageName,
\* a description and an APK file that meets no fault of the bucket or of the
\* catalog connection is answered 201 with the record it created, and that
\* record is in the catalog.
C27_CompletePublishCreatesRecord ==
    \A r \in Slots :
      C27_CompletePublishNoFault(r) =>
        /\ rq[r].res.status = 201
        /\ \E i \in 1..Len(catalog) : catalog[i] = rq[r].res.body


-----------------------------------------------------------------------------
(* C25.  A replace that fetched its record, whose record a concurrent       *)
(* remove deleted before findByIdAndUpdate was applied.                      *)

\* The replace of slot r fetched the record, the catalog was reached by its
\* findByIdAndUpdate with an update that casts, and no record had the id
\* any more.
C25_RecordGoneAtUpdate(r) ==
    /\ Responded(r) /\ rq[r].op = "replace"
    /\ rq[r].existingApk # <<>>
    /\ rq[r].calls # <<>>
    /\ LastCall(rq[r]).call = "findByIdAndUpdate"
    /\ ~HasRecord(rq[r].req.id)
    /\ ~(rq[r].req.body.versionCode # Undefined
           /\ parseIntIsNaN(rq[r].req.body.versionCode))
    /\ rq[r].res.details # CatalogFault

\* C25: a replace whose record was deleted by a concurrent remove between
\* its fetch and its catalog update is answered 404 (not found), not with
\* the failure an update fault gets, and the record is not created again.
C25_ReplaceOfRemovedReportsNotFound ==
    \A r \in Slots :
      C25_RecordGoneAtUpdate(r) =>
        /\ rq[r].res.status = 404
        /\ ~HasRecord(rq[r].req.id)


-----------------------------------------------------------------------------
(* C24.  In a remove, findByIdAndDelete is the last store call: when it is  *)
(* issued, the delete of the APK object and, for a record with an icon, the *)
(* delete of the icon object have been attempted.                            *)

\* The handler has issued a delete of the object `key` before its n-th call.
C24_AttemptedBefore(slot, key, n) ==
    \E i \in 1..(n - 1) : slot.calls[i].call = "delete" /\ slot.calls[i].key = key

\* C24: in every remove, the call that deletes the record from the catalog
\* is the last call of the handler, and before it a delete of the record's
\* apkKey and, when the record has an iconKey, a delete of that iconKey have
\* been issued (whatever their outcome).
C24_CatalogDeleteLast ==
    \A r \in Slots :
      rq[r].op = "remove" =>
        \A n \in CallsNamed(rq[r], {"findByIdAndDelete"}) :
          /\ n = Len(rq[r].calls)
          /\ C24_AttemptedBefore(rq[r], rq[r].existingApk.apkKey, n)
          /\ ~Falsy(rq[r].existingApk.iconKey) =>
               C24_AttemptedBefore(rq[r], rq[r].existingApk.iconKey, n)


-----------------------------------------------------------------------------
(* Runs without store faults.                                                *)

\* A call of the handler met a fault of the store: an r2.send that threw, a
\* catalog that was not reached, or a findById that threw on its id.  (A
\* findByIdAndUpdate that finds no record or cannot cast its update, and a
\* create the schema rejects, fail without a fault of the store.)
StoreFault(slot) ==
    \E i \in 1..Len(slot.calls) :
      /\ ~slot.calls[i].ok
      /\ ~(/\ i = Len(slot.calls)
           /\ slot.calls[i].call \in {"findByIdAndUpdate", "create"}
           /\ slot.res.details \in {NullDocument, CastFailed, ValidationFailed})

\* The step leaves no handler with a store fault in its log.
NoStoreFault == \A s \in Slots : ~StoreFault(rq'[s])

\* The evolved revision serving remove requests, its stores never failing
\* (a DeleteObject of a key that is not in the bucket succeeds).
NextRemoveNoFault ==
    \/ Tick
    \/ \E r \in Slots :
         \/ DeleteStart(r) /\ NoStoreFault
         \/ DeleteFind(r) /\ NoStoreFault
         \/ DeleteDelApk(r) /\ NoStoreFault
         \/ DeleteDelIcon(r) /\ NoStoreFault
         \/ DeleteDelRecord(r) /\ NoStoreFault

SpecRemoveNoFault == InitEvolved /\ [][NextRemoveNoFault]_vars

-----------------------------------------------------------------------------
(* C23.  Two concurrent removes of the same record, the stores not failing. *)

\* The authenticated remove of slot r has just been answered.
C23_RemoveAnswered(r) ==
    /\ Responded(r) /\ rq[r].op = "remove"
    /\ authMiddleware(rq[r].req.auth) = ""

\* The record of the id and the objects the handler fetched with it are gone.
C23_AllGone(slot) ==
    /\ ~HasRecord(slot.req.id)
    /\ slot.existingApk.apkKey \notin blobs
    /\ ~Falsy(slot.existingApk.iconKey) => slot.existingApk.iconKey \notin blobs

\* The answer of the remove of slot r: 404 when it found no record, else 200
\* with the record and its objects gone.
C23_AnsweredWell(r) ==
    IF rq[r].existingApk = <<>>
    THEN rq[r].res.status = 404 /\ ~HasRecord(rq[r].req.id)
    ELSE rq[r].res.status = 200 /\ C23_AllGone(rq[r])

\* C23: with stores that do not fail, under every interleaving of removes
\* (two of the same id among them), a remove that found its record is
\* answered 200, never with a failure because the other remove had already
\* deleted the same object or the record; a remove is otherwise answered
\* 404; when a remove is answered 200 the record and the objects under its
\* apkKey and iconKey are gone, and what is gone stays gone.
C23_ConcurrentRemovesTolerated ==
    [][/\ \A r \in Slots : (C23_RemoveAnswered(r) => C23_AnsweredWell(r))'
       /\ blobs' \subseteq blobs
       /\ \A id \in Ids : ~HasRecord(id) => ~HasRecord(id)']_vars

\* Two removes of record 1 are in flight, both have fetched the record; one
\* has just been answered 200 and the other has still to issue calls on the
\* objects and the record that are gone.
C23_Witness ==
    \E r, s \in Slots :
      /\ r # s
      /\ C23_RemoveAnswered(r) /\ rq[r].req.id = 1 /\ rq[r].res.status = 200
      /\ rq[s].op = "remove" /\ rq[s].req.id = 1
      /\ rq[s].pc \in {"delApk", "delIcon", "delRecord"}
      /\ ~HasRecord(1)


-----------------------------------------------------------------------------
(* C22.  Two concurrent replaces of the same record, each with a new APK,   *)
(* the stores not failing.                                                   *)

\* The key a replace with the file "a 1" generates in millisecond 1.
ReplacedApkKey == StorageKey(Apks, 1, Sanitize(<<"a"," ","1">>))

\* The server after PUT /apks/1 with the file "a 1" and no field has been
\* answered in millisecond 1 (a state of Spec): record 1 holds the new key,
\* the old object is deleted and the new one is stored.
InitReplaced ==
    /\ variant = "evolved"
    /\ catalog = <<[Stored(1, OldIconKey) EXCEPT
                      !.apkKey = ReplacedApkKey,
                      !.apkUrl = PublicUrl(ReplacedApkKey)],
                   Stored(2, Null)>>
    /\ blobs = {ReplacedApkKey, OldIconKey, OldApkKey(2)}
    /\ now = 1
    /\ nextId = 3
    /\ rq = [s \in Slots |-> Idle]
    /\ started = 0
    /\ last = 0
    /\ issued = {ReplacedApkKey}
    /\ reissued = {}

\* The evolved revision serving replace requests, its stores never failing.
NextReplaceNoFault ==
    \/ Tick
    \/ \E r \in Slots :
         \/ PutAccept(r) /\ NoStoreFault
         \/ PutStart(r) /\ NoStoreFault
         \/ PutFind(r) /\ NoStoreFault
         \/ PutDelApk(r) /\ NoStoreFault
         \/ PutPutApk(r) /\ NoStoreFault
         \/ PutDelIcon(r) /\ NoStoreFault
         \/ PutPutIcon(r) /\ NoStoreFault
         \/ PutUpdate(r) /\ NoStoreFault

\* The server as it starts, or after a first replace of record 1.
SpecReplaceNoFault == (InitEvolved \/ InitReplaced) /\ [][NextReplaceNoFault]_vars

\* The authenticated replace of slot r, which supplied a new APK, has just
\* been answered.
C22_ReplaceAnswered(r) ==
    /\ Responded(r) /\ rq[r].op = "replace"
    /\ authMiddleware(rq[r].req.auth) = ""
    /\ rq[r].req.apk # Undefined
    /\ rq[r].existingApk # <<>>

\* Both complete, and the last write wins: a replace with a new APK is
\* answered 200, and when its update has been applied the record holds the
\* apkKey its handler generated.
C22_LastWriteWins ==
    \A r \in Slots :
      C22_ReplaceAnswered(r) =>
        /\ rq[r].res.status = 200
        /\ rq[r].res.body.apkKey = rq[r].apkKey
        /\ catalog[IndexOfId(rq[r].req.id)].apkKey = rq[r].apkKey

\* No handler is running.
C22_AtRest == \A s \in Slots : Free(s)

\* C22 as stated: with stores that do not fail, under every interleaving of
\* two replaces of the same record that supply a new APK, both are answered
\* 200, the record holds the apkKey of the update applied last, and once
\* both have completed the object under that apkKey is in the bucket.
C22_LastKeyStored ==
    /\ C22_LastWriteWins
    /\ C22_AtRest => \A i \in 1..Len(catalog) : catalog[i].apkKey \in blobs

-----------------------------------------------------------------------------
(* C29.  Requests served one at a time, stores not failing, every read of   *)
(* the clock later than the one before: the bucket holds exactly the        *)
(* objects the records reference.                                            *)

\* The millisecond a storage key was generated in: the digits after "/".
KeyTime(k) ==
    LET slash == CHOOSE i \in 1..Len(k) : k[i] = "/" /\ \A j \in 1..(i - 1) : k[j] # "/"
    IN  DigitsValue(SubSeq(k, slash + 1, Len(k)), 0)

\* A request is accepted only when no handler is running.
OneAtATime == started' = started + 1 => \A s \in Slots : Free(s)

\* Every Date.now() a key is generated from is later than those before it.
StrictClock ==
    /\ reissued' = reissued
    /\ \A k \in issued' \ issued : \A j \in issued : KeyTime(j) < KeyTime(k)

\* The conditions of a step of such a run.
Calm == NoStoreFault /\ OneAtATime /\ StrictClock

\* The evolved revision serving publish, replace and remove requests one at
\* a time, its stores never failing, its clock strictly increasing.
NextCalm ==
    \/ Tick
    \/ \E r \in Slots :
         \/ PostAccept(r) /\ Calm
         \/ PostStart(r) /\ Calm
         \/ PostPutApk(r) /\ Calm
         \/ PostPutIcon(r) /\ Calm
         \/ PostCreate(r) /\ Calm
         \/ PutAccept(r) /\ Calm
         \/ PutStart(r) /\ Calm
         \/ PutFind(r) /\ Calm
         \/ PutDelApk(r) /\ Calm
         \/ PutPutApk(r) /\ Calm
         \/ PutDelIcon(r) /\ Calm
         \/ PutPutIcon(r) /\ Calm
         \/ PutUpdate(r) /\ Calm
         \/ DeleteStart(r) /\ Calm
         \/ DeleteFind(r) /\ Calm
         \/ DeleteDelApk(r) /\ Calm
         \/ DeleteDelIcon(r) /\ Calm
         \/ DeleteDelRecord(r) /\ Calm

SpecCalm == InitEvolved /\ [][NextCalm]_vars

\* A publish, replace or remove has just been answered.
C29_Completed ==
    \E r \in Slots : Responded(r) /\ rq[r].op \in {"publish", "replace", "remove"}

\* C29: in a run without store faults, with requests served one at a time
\* and a strictly increasing clock, after each completed publish, replace or
\* remove the objects in the bucket are exactly the apkKey and non-null
\* iconKey values of the records: no orphan, no dangling reference.
C29_BucketMatchesCatalog == C29_Completed => blobs = ReferencedKeys

\* One half of C29 alone: no record references a missing object.  (A
\* replace with a new APK whose update cannot cast its versionCode has
\* deleted the old object and leaves the record as it was.)
C29_NoDanglingReference == C29_Completed => ReferencedKeys \subseteq blobs


-----------------------------------------------------------------------------
(* The in-memory revision (src/server.js, third server): the records are    *)
(* objects in the array `apks`, a fixed token authenticates.                 *)

\* process.env.API_AUTH_TOKEN || "supersecret123"
AUTH_TOKEN == "supersecret123"

\* The Authorization header: absent, "Bearer <AUTH_TOKEN>", or another.
MemAuthHeaders == {<<>>, <<"Bearer", AUTH_TOKEN>>, <<"Bearer", "guess">>}

\* authMiddleware of the in-memory revision: the error it answers 401 with,
\* "" when it calls next().
MemAuthMiddleware(header) ==
    IF header = <<>> \/ header # <<"Bearer", AUTH_TOKEN>> THEN "Unauthorized" ELSE ""

\* An index of the array nothing was ever written to.  Every object has a
\* ref, its identity; the hole has none.
Hole == [ref |-> 0]

\* An object as JSON.stringify writes it; a hole is written null.
Json(e) == IF e = Hole THEN Null ELSE [f \in DOMAIN e \ {"ref"} |-> e[f]]

\* The handler of the in-memory revision: that of the other revisions, and
\* its constants apkIndex and apk (existingApk, the object it holds) and the
\* key of the DeleteObject it has issued.
MemIdle(op, q) ==
    [apkIndex |-> 0, delKey |-> Null] @@ [Idle EXCEPT !.op = op, !.req = q]

\* apks.findIndex(a => a.id === id), counted from 1: 0 when no element has
\* the id, -1 when the callback throws, reading `id` of a hole.
MemFindIndex(id) ==
    LET stops == {i \in 1..Len(catalog) : catalog[i] = Hole \/ catalog[i].id = id} IN
    IF stops = {} THEN 0
    ELSE LET first == CHOOSE i \in stops : \A j \in stops : i <= j IN
         IF catalog[first] = Hole THEN 0 - 1 ELSE first

\* A write of the fields `patch` to the object `ref`, as an element sees it.
Patched(e, ref, patch) == IF e.ref = ref THEN patch @@ e ELSE e

\* The array after the fields `patch` are written to the object `ref`.
PatchedArray(ref, patch) == [i \in 1..Len(catalog) |-> Patched(catalog[i], ref, patch)]

\* apks[apkIndex] = apk: an index past the end extends the array, leaving
\* holes between.
Assigned(array, index, e) ==
    IF index <= Len(array) THEN [array EXCEPT ![index] = e]
    ELSE [i \in 1..index |->
            IF i <= Len(array) THEN array[i] ELSE IF i = index THEN e ELSE Hole]

\* apks.splice(apkIndex, 1): nothing is removed past the end.
Spliced(array, index) ==
    IF index > Len(array) THEN array
    ELSE [i \in 1..(Len(array) - 1) |-> IF i < index THEN array[i] ELSE array[i + 1]]

\* The handler of slot r moves on and writes the fields `patch` to the
\* object `ref`: every other handler that holds the object sees the write.
MemStep(r, next, ref, patch) ==
    LET before == IF rq[r].pc \in {"idle", "done"} THEN {} ELSE KeysOf(rq[r])
        fresh == KeysOf(next) \ before
    IN  /\ rq' = [s \in Slots |->
                    IF s = r THEN next
                    ELSE IF rq[s].pc = "done" THEN Idle
                    ELSE IF rq[s].pc # "idle" /\ rq[s].existingApk # <<>>
                    THEN [rq[s] EXCEPT !.existingApk = Patched(@, ref, patch)]
                    ELSE rq[s]]
        /\ last' = r
        /\ issued' = issued \cup fresh
        /\ reissued' = reissued \cup (fresh \cap issued)

\* The catch blocks of the three handlers ("Oshibka zagruzki v R2", "Oshibka
\* obnovleniya APK", "Oshibka udaleniya failov iz R2").
MemPostFailure == ErrorResponse(500, <<"R2 upload error">>, "")
MemPutFailure == ErrorResponse(500, <<"APK update error">>, "")
MemDeleteFailure == ErrorResponse(500, <<"R2 delete error">>, "")

\* res.status(404).json({ error: "APK ne naiden" })
MemNotFound == ErrorResponse(404, <<"APK not found">>, "")

\* An error thrown outside a try block of an async handler: the promise is
\* rejected and nothing handles it.  What follows is the runtime's choice,
\* which the repository does not fix: the request is left without response
\* (express 4, Node before 15), the process exits (express 4, Node 15 and
\* later), or the error handler answers 500 (express 5).

\* The unhandled rejection of the handler of slot r, made from `slot`.  When
\* the process exits, every handler is cut and the array is lost: a slot at
\* "exited" takes no step and accepts no request.  The error handler answers
\* 500.
MemUnhandled(r, slot) ==
    \E outcome \in {"no response", "exit", "error handler"} :
      IF outcome = "exit"
      THEN /\ rq' = [s \in Slots |-> [Idle EXCEPT !.pc = "exited"]]
           /\ last' = r
           /\ catalog' = <<>>
           /\ UNCHANGED <<issued, reissued>>
      ELSE /\ Step(r, [slot EXCEPT !.pc = "done",
                         !.res = IF outcome = "no response"
                                 THEN ErrorResponse(0, <<"TypeError">>, "")
                                 ELSE ErrorResponse(500, <<"Internal Server Error">>, "")])
           /\ catalog' = catalog

-----------------------------------------------------------------------------
(* GET /apks (in-memory revision): no await. *)

MemList(r) ==
    /\ CanAccept(r)
    /\ started' = started + 1
    /\ Step(r, [MemIdle("list", <<>>) EXCEPT
                  !.pc = "done",
                  !.res = RecordResponse(200, [i \in 1..Len(catalog) |-> Json(catalog[i])])])
    /\ UNCHANGED <<variant, catalog, blobs, now, nextId>>

-----------------------------------------------------------------------------
(* POST /apks (in-memory revision). *)

\* The publish requests: with the token, an APK "a 1" with or without title
\* and icon, a request without APK, and a request that is not
\* multipart/form-data (multer then leaves req.files unset), with and
\* without title; the full request with each header that fails.
MemPostRequests ==
    {q \in [auth : MemAuthHeaders, multipart : BOOLEAN, title : {Undefined, Title},
            apk : {Undefined, <<"a"," ","1">>}, icon : IconNames \cup {Undefined}] :
        \/ q.auth = <<"Bearer", AUTH_TOKEN>> /\ q.multipart
             /\ (q.apk # Undefined \/ (q.title = Undefined /\ q.icon = Undefined))
        \/ q.auth = <<"Bearer", AUTH_TOKEN>> /\ ~q.multipart
             /\ q.apk = Undefined /\ q.icon = Undefined
        \/ q.multipart /\ q.title = Title /\ q.apk # Undefined /\ q.icon # Undefined}

\* const newApk = { id: Date.now(), ..., createdAt: new Date().toISOString() }:
\* the clock is read for the id, and again, at t, for createdAt.
MemNewApk(slot, t) ==
    [ref |-> nextId, id |-> now,
     title |-> OrElse(slot.req.title, slot.req.apk),
     apkUrl |-> PublicUrl(slot.apkKey),
     iconUrl |-> IF Falsy(slot.iconKey) THEN Null ELSE PublicUrl(slot.iconKey),
     apkKey |-> slot.apkKey, iconKey |-> slot.iconKey, createdAt |-> t]

\* From the URLs to res.json(newApk): the object is made and pushed.  The
\* clock may move between the two reads of this stretch.
MemPostFinish(r, slot) ==
    \E t \in now..MaxClock :
      /\ catalog' = Append(catalog, MemNewApk(slot, t))
      /\ nextId' = nextId + 1
      /\ now' = t
      /\ Step(r, [slot EXCEPT !.pc = "done",
                    !.res = RecordResponse(200, Json(MemNewApk(slot, t)))])

\* authMiddleware, then upload.fields(...).  Multer reads the body of a
\* multipart/form-data request and the handler runs in a later turn.  It
\* passes any other request on at once, req.files unset: the handler runs
\* in the same turn, and req.files.apk is a TypeError, caught.
MemPostAccept(r) ==
    /\ CanAccept(r)
    /\ started' = started + 1
    /\ \E q \in MemPostRequests :
         LET slot == MemIdle("publish", q) IN
         IF MemAuthMiddleware(q.auth) # ""
         THEN Step(r, [slot EXCEPT !.pc = "done",
                         !.res = ErrorResponse(401, <<MemAuthMiddleware(q.auth)>>, "")])
         ELSE IF ~q.multipart
         THEN Step(r, [slot EXCEPT !.pc = "done", !.res = MemPostFailure])
         ELSE Step(r, [slot EXCEPT !.pc = "multer"])
    /\ UNCHANGED <<variant, catalog, blobs, now, nextId>>

\* The handler, multer having parsed the request: the check of the APK,
\* both keys, the clock read once for each (it may move between the two
\* reads); the handler then awaits the upload of the APK.
MemPostStart(r) ==
    /\ rq[r].op = "publish" /\ rq[r].pc = "multer"
    /\ LET slot == rq[r]
           q == slot.req
       IN  IF q.apk = Undefined
           THEN /\ Step(r, [slot EXCEPT !.pc = "done",
                              !.res = ErrorResponse(400, <<"APK required">>, "")])
                /\ now' = now
           ELSE IF q.icon = Undefined
           THEN /\ Step(r, [slot EXCEPT !.pc = "putApk",
                              !.apkKey = StorageKey(Apks, now, q.apk),
                              !.iconKey = Null])
                /\ now' = now
           ELSE \E t \in now..MaxClock :
                  /\ Step(r, [slot EXCEPT !.pc = "putApk",
                                !.apkKey = StorageKey(Apks, now, q.apk),
                                !.iconKey = StorageKey(Icons, t, q.icon)])
                  /\ now' = t
    /\ UNCHANGED <<variant, catalog, blobs, nextId, started>>

\* await r2.send(PutObjectCommand(apkKey))
MemPostPutApk(r) ==
    /\ rq[r].op = "publish" /\ rq[r].pc = "putApk"
    /\ \E ok \in BOOLEAN :
         LET slot == [rq[r] EXCEPT !.calls = Append(@, Call("put", rq[r].apkKey, ok))] IN
         IF ~ok
         THEN /\ Step(r, [slot EXCEPT !.pc = "done", !.res = MemPostFailure])
              /\ UNCHANGED <<catalog, blobs, nextId, now>>
         ELSE /\ blobs' = blobs \cup {slot.apkKey}
              /\ IF slot.req.icon # Undefined
                 THEN /\ Step(r, [slot EXCEPT !.pc = "putIcon"])
                      /\ UNCHANGED <<catalog, nextId, now>>
                 ELSE MemPostFinish(r, slot)
    /\ UNCHANGED <<variant, started>>

\* await r2.send(PutObjectCommand(iconKey))
MemPostPutIcon(r) ==
    /\ rq[r].op = "publish" /\ rq[r].pc = "putIcon"
    /\ \E ok \in BOOLEAN :
         LET slot == [rq[r] EXCEPT !.calls = Append(@, Call("put", rq[r].iconKey, ok))] IN
         IF ~ok
         THEN /\ Step(r, [slot EXCEPT !.pc = "done", !.res = MemPostFailure])
              /\ UNCHANGED <<catalog, blobs, nextId, now>>
         ELSE /\ blobs' = blobs \cup {slot.iconKey}
              /\ MemPostFinish(r, slot)
    /\ UNCHANGED <<variant, started>>


-----------------------------------------------------------------------------
(* PUT /apks/:id (in-memory revision). *)

\* The replace requests: with the token, records 1 and 2 with an APK, an
\* icon, both with a title, a title alone, or nothing, an id no record
\* has, and requests that are not multipart/form-data (req.files unset);
\* the full request with each header that fails.
MemPutRequests ==
    {q \in [auth : MemAuthHeaders, multipart : BOOLEAN, id : Ids,
            title : {Undefined, Title},
            apk : {Undefined, <<"a"," ","1">>}, icon : IconNames \cup {Undefined}] :
        \/ /\ q.auth = <<"Bearer", AUTH_TOKEN>> /\ ~q.multipart
           /\ q.apk = Undefined /\ q.icon = Undefined
           /\ (q.id = 9 => q.title = Undefined)
        \/ /\ q.auth = <<"Bearer", AUTH_TOKEN>> /\ q.multipart
           /\ \/ q.id # 9 /\ q.title = Undefined /\ (q.apk = Undefined \/ q.icon = Undefined)
              \/ q.id # 9 /\ q.title = Title /\ (q.apk = Undefined <=> q.icon = Undefined)
              \/ q.id = 9 /\ q.title = Undefined /\ q.apk = Undefined /\ q.icon = Undefined
        \/ /\ q.multipart
           /\ q.id = 1 /\ q.title = Title /\ q.apk # Undefined /\ q.icon # Undefined}

\* From `if (title)` to res.json(apk), the fields `patch` having been
\* written to the object in this stretch: the title is written,
\* `${title} (NEW)`, the object is assigned to the index found at the
\* start, and sent.
MemPutFinish(r, slot, patch) ==
    LET all == IF Falsy(slot.req.title) THEN patch
               ELSE [title |-> slot.req.title \o <<" ", "(", "N", "E", "W", ")">>]
                      @@ patch
        apk == all @@ slot.existingApk
    IN  /\ catalog' = Assigned(PatchedArray(apk.ref, all), slot.apkIndex, apk)
        /\ MemStep(r, [slot EXCEPT !.pc = "done", !.existingApk = apk,
                         !.res = RecordResponse(200, Json(apk))],
                   apk.ref, all)

\* From `if (iconFile)` to its first await, or to the end of the handler,
\* the fields `patch` having been written to the object in this stretch.
MemPutIconPart(r, slot, patch) ==
    IF slot.req.icon = Undefined THEN MemPutFinish(r, slot, patch)
    ELSE /\ catalog' = PatchedArray(slot.existingApk.ref, patch)
         /\ MemStep(r, [slot EXCEPT !.pc = "putIcon",
                          !.existingApk = patch @@ @,
                          !.iconKey = StorageKey(Icons, now, slot.req.icon)],
                    slot.existingApk.ref, patch)

\* authMiddleware, then upload.fields(...).  Multer reads the body of a
\* multipart/form-data request and the handler runs in a later turn.  It
\* passes any other request on at once, req.files unset: the handler runs
\* in the same turn, findIndex throws on a hole or finds no element, and
\* req.files.apk is a TypeError, caught.
MemPutAccept(r) ==
    /\ CanAccept(r)
    /\ started' = started + 1
    /\ \E q \in MemPutRequests :
         LET slot == MemIdle("replace", q) IN
         IF MemAuthMiddleware(q.auth) # ""
         THEN Step(r, [slot EXCEPT !.pc = "done",
                         !.res = ErrorResponse(401, <<MemAuthMiddleware(q.auth)>>, "")])
         ELSE IF ~q.multipart
         THEN Step(r, [slot EXCEPT !.pc = "done",
                         !.res = IF MemFindIndex(q.id) = 0 THEN MemNotFound
                                 ELSE MemPutFailure])
         ELSE Step(r, [slot EXCEPT !.pc = "multer"])
    /\ UNCHANGED <<variant, catalog, blobs, now, nextId>>

\* The handler, multer having parsed the request: findIndex (it throws on a
\* hole, caught), apk = apks[apkIndex], and on to the first await: the
\* upload of the new APK or of the new icon.
MemPutStart(r) ==
    /\ rq[r].op = "replace" /\ rq[r].pc = "multer"
    /\ LET slot == rq[r]
           q == slot.req
           apkIndex == MemFindIndex(q.id)
       IN  IF apkIndex < 0
           THEN /\ Step(r, [slot EXCEPT !.pc = "done", !.res = MemPutFailure])
                /\ catalog' = catalog
           ELSE IF apkIndex = 0
           THEN /\ Step(r, [slot EXCEPT !.pc = "done", !.res = MemNotFound])
                /\ catalog' = catalog
           ELSE LET found == [slot EXCEPT !.apkIndex = apkIndex,
                                          !.existingApk = catalog[apkIndex]]
                IN  IF q.apk # Undefined
                    THEN /\ Step(r, [found EXCEPT !.pc = "putApk",
                                       !.apkKey = StorageKey(Apks, now, q.apk)])
                         /\ catalog' = catalog
                    ELSE MemPutIconPart(r, found, <<>>)
    /\ UNCHANGED <<variant, blobs, now, nextId, started>>

\* await r2.send(PutObjectCommand(apkKey)); then DeleteObjectCommand is made
\* with the apkKey the object holds now.
MemPutPutApk(r) ==
    /\ rq[r].op = "replace" /\ rq[r].pc = "putApk"
    /\ \E ok \in BOOLEAN :
         LET slot == [rq[r] EXCEPT !.calls = Append(@, Call("put", rq[r].apkKey, ok))] IN
         IF ok
         THEN /\ blobs' = blobs \cup {slot.apkKey}
              /\ Step(r, [slot EXCEPT !.pc = "delApk", !.delKey = slot.existingApk.apkKey])
         ELSE /\ blobs' = blobs
              /\ Step(r, [slot EXCEPT !.pc = "done", !.res = MemPutFailure])
    /\ UNCHANGED <<variant, catalog, now, nextId, started>>

\* await r2.send(DeleteObjectCommand(apk.apkKey)); apk.apkKey = apkKey;
\* apk.apkUrl = ...
MemPutDelApk(r) ==
    /\ rq[r].op = "replace" /\ rq[r].pc = "delApk"
    /\ \E ok \in BOOLEAN :
         LET slot == [rq[r] EXCEPT !.calls = Append(@, Call("delete", rq[r].delKey, ok))] IN
         IF ok
         THEN /\ blobs' = blobs \ {slot.delKey}
              /\ MemPutIconPart(r, slot, [apkKey |-> slot.apkKey,
                                          apkUrl |-> PublicUrl(slot.apkKey)])
         ELSE /\ blobs' = blobs
              /\ catalog' = catalog
              /\ Step(r, [slot EXCEPT !.pc = "done", !.res = MemPutFailure])
    /\ UNCHANGED <<variant, now, nextId, started>>

\* apk.iconKey = iconKey; apk.iconUrl = ...
MemIconPatch(slot) == [iconKey |-> slot.iconKey, iconUrl |-> PublicUrl(slot.iconKey)]

\* await r2.send(PutObjectCommand(iconKey)); if (apk.iconKey) the delete of
\* the old icon is issued, else the fields are written.
MemPutPutIcon(r) ==
    /\ rq[r].op = "replace" /\ rq[r].pc = "putIcon"
    /\ \E ok \in BOOLEAN :
         LET slot == [rq[r] EXCEPT !.calls = Append(@, Call("put", rq[r].iconKey, ok))] IN
         IF ~ok
         THEN /\ blobs' = blobs
              /\ catalog' = catalog
              /\ Step(r, [slot EXCEPT !.pc = "done", !.res = MemPutFailure])
         ELSE /\ blobs' = blobs \cup {slot.iconKey}
              /\ IF ~Falsy(slot.existingApk.iconKey)
                 THEN /\ catalog' = catalog
                      /\ Step(r, [slot EXCEPT !.pc = "delIcon",
                                    !.delKey = slot.existingApk.iconKey])
                 ELSE MemPutFinish(r, slot, MemIconPatch(slot))
    /\ UNCHANGED <<variant, now, nextId, started>>

\* await r2.send(DeleteObjectCommand(apk.iconKey)); the fields are written.
MemPutDelIcon(r) ==
    /\ rq[r].op = "replace" /\ rq[r].pc = "delIcon"
    /\ \E ok \in BOOLEAN :
         LET slot == [rq[r] EXCEPT !.calls = Append(@, Call("delete", rq[r].delKey, ok))] IN
         IF ok
         THEN /\ blobs' = blobs \ {slot.delKey}
              /\ MemPutFinish(r, slot, MemIconPatch(slot))
         ELSE /\ blobs' = blobs
              /\ catalog' = catalog
              /\ Step(r, [slot EXCEPT !.pc = "done", !.res = MemPutFailure])
    /\ UNCHANGED <<variant, now, nextId, started>>

-----------------------------------------------------------------------------
(* DELETE /apks/:id (in-memory revision). *)

MemDeleteRequests ==
    {q \in [auth : MemAuthHeaders, id : Ids] :
        q.auth = <<"Bearer", AUTH_TOKEN>> \/ q.id = 1}

\* apks.splice(apkIndex, 1); res.json({ message })
MemDeleteFinish(r, slot) ==
    /\ catalog' = Spliced(catalog, slot.apkIndex)
    /\ Step(r, [slot EXCEPT !.pc = "done",
                  !.res = [status |-> 200, error |-> <<>>,
                           details |-> "APK and icon deleted", body |-> <<>>]])

\* authMiddleware, findIndex (outside the try), apk = apks[apkIndex]; the
\* handler then awaits the delete of the APK.
MemDeleteStart(r) ==
    /\ CanAccept(r)
    /\ started' = started + 1
    /\ \E q \in MemDeleteRequests :
         LET slot == MemIdle("remove", q)
             apkIndex == MemFindIndex(q.id)
         IN
         IF MemAuthMiddleware(q.auth) # ""
         THEN /\ Step(r, [slot EXCEPT !.pc = "done",
                            !.res = ErrorResponse(401, <<MemAuthMiddleware(q.auth)>>, "")])
              /\ catalog' = catalog
         ELSE IF apkIndex < 0
         THEN MemUnhandled(r, slot)
         ELSE IF apkIndex = 0
         THEN /\ Step(r, [slot EXCEPT !.pc = "done", !.res = MemNotFound])
              /\ catalog' = catalog
         ELSE /\ Step(r, [slot EXCEPT !.pc = "delApk", !.apkIndex = apkIndex,
                            !.existingApk = catalog[apkIndex],
                            !.delKey = catalog[apkIndex].apkKey])
              /\ catalog' = catalog
    /\ UNCHANGED <<variant, blobs, now, nextId>>

\* await r2.send(DeleteObjectCommand(apk.apkKey)); if (apk.iconKey) the
\* delete of the icon is issued, else the element is spliced out.
MemDeleteDelApk(r) ==
    /\ rq[r].op = "remove" /\ rq[r].pc = "delApk"
    /\ \E ok \in BOOLEAN :
         LET slot == [rq[r] EXCEPT !.calls = Append(@, Call("delete", rq[r].delKey, ok))] IN
         IF ~ok
         THEN /\ blobs' = blobs
              /\ catalog' = catalog
              /\ Step(r, [slot EXCEPT !.pc = "done", !.res = MemDeleteFailure])
         ELSE /\ blobs' = blobs \ {slot.delKey}
              /\ IF ~Falsy(slot.existingApk.iconKey)
                 THEN /\ catalog' = catalog
                      /\ Step(r, [slot EXCEPT !.pc = "delIcon",
                                    !.delKey = slot.existingApk.iconKey])
                 ELSE MemDeleteFinish(r, slot)
    /\ UNCHANGED <<variant, now, nextId, started>>

\* await r2.send(DeleteObjectCommand(apk.iconKey)); apks.splice(apkIndex, 1)
MemDeleteDelIcon(r) ==
    /\ rq[r].op = "remove" /\ rq[r].pc = "delIcon"
    /\ \E ok \in BOOLEAN :
         LET slot == [rq[r] EXCEPT !.calls = Append(@, Call("delete", rq[r].delKey, ok))] IN
         IF ok
         THEN /\ blobs' = blobs \ {slot.delKey}
              /\ MemDeleteFinish(r, slot)
         ELSE /\ blobs' = blobs
              /\ catalog' = catalog
              /\ Step(r, [slot EXCEPT !.pc = "done", !.res = MemDeleteFailure])
    /\ UNCHANGED <<variant, now, nextId, started>>

-----------------------------------------------------------------------------
(* The in-memory revision as it starts: `let apks = []`. *)

InitMemory ==
    /\ variant = "memory"
    /\ catalog = <<>>
    /\ blobs = {}
    /\ now = 1
    /\ nextId = 1
    /\ rq = [s \in Slots |-> Idle]
    /\ started = 0
    /\ last = 0
    /\ issued = {}
    /\ reissued = {}

NextMemory ==
    \/ Tick
    \/ \E r \in Slots :
         \/ MemList(r)
         \/ MemPostAccept(r) \/ MemPostStart(r)
         \/ MemPostPutApk(r) \/ MemPostPutIcon(r)
         \/ MemPutAccept(r) \/ MemPutStart(r)
         \/ MemPutPutApk(r) \/ MemPutDelApk(r)
         \/ MemPutPutIcon(r) \/ MemPutDelIcon(r)
         \/ MemDeleteStart(r) \/ MemDeleteDelApk(r) \/ MemDeleteDelIcon(r)

\* The in-memory revision after five requests: two publishes, at 1 and at
\* 2, a replace of the icon of the second record that found it at index 2,
\* both removes while the replace awaited its upload, and the end of the
\* replace, which assigned the record to index 2 of the emptied array.
InitMemoryHole ==
    LET HoleKeys == [apk1 |-> StorageKey(Apks, 1, <<"a", " ", "1">>),
                     apk2 |-> StorageKey(Apks, 2, <<"a", " ", "1">>),
                     icon2 |-> StorageKey(Icons, 2, <<"i", ".", "p">>)]
    IN
    /\ variant = "memory"
    /\ catalog = <<Hole,
                   [ref |-> 2, id |-> 2, title |-> <<"a", " ", "1">>,
                    apkUrl |-> PublicUrl(HoleKeys.apk2),
                    iconUrl |-> PublicUrl(HoleKeys.icon2),
                    apkKey |-> HoleKeys.apk2, iconKey |-> HoleKeys.icon2,
                    createdAt |-> 2]>>
    /\ blobs = {HoleKeys.icon2}
    /\ now = 2
    /\ nextId = 3
    /\ rq = [s \in Slots |-> Idle]
    /\ started = 0
    /\ last = 0
    /\ issued = {HoleKeys.apk1, HoleKeys.apk2, HoleKeys.icon2}
    /\ reissued = {}

SpecMemory == (InitMemory \/ InitMemoryHole) /\ [][NextMemory]_vars


-----------------------------------------------------------------------------
(* C12.  When a replace that sent a new APK answers 200, the object of the  *)
(* new key is in the bucket, the record of the id holds the new key, and    *)
(* the old key is absent from the bucket or referenced by no record.  (Of   *)
(* the evolved and of the in-memory revision: the list of the latter may    *)
(* have holes.)                                                             *)

\* The replace of slot r, which sent a new APK, has just answered 200.
C12_BlobReplaced(r) ==
    /\ Responded(r) /\ rq[r].op = "replace" /\ rq[r].res.status = 200
    /\ rq[r].req.apk # Undefined

\* A record of the list references the key.
C12_Referenced(key) ==
    \E i \in 1..Len(catalog) :
      catalog[i] # Hole /\ (catalog[i].apkKey = key \/ catalog[i].iconKey = key)

\* The object of the key the handler generated is in the bucket, and the
\* record of the id holds the key.
C12_NewKeyRecorded(r) ==
    /\ rq[r].apkKey \in blobs
    /\ \E i \in 1..Len(catalog) :
         /\ catalog[i] # Hole
         /\ catalog[i].id = rq[r].req.id
         /\ catalog[i].apkKey = rq[r].apkKey

\* The old key, the one the first DeleteObject of the handler was sent for,
\* is absent from the bucket or referenced by no record.
C12_OldKeyGone(r) ==
    LET dels == CallsNamed(rq[r], {"delete"})
        old == rq[r].calls[CHOOSE i \in dels : \A j \in dels : i <= j].key
    IN  old \notin blobs \/ ~C12_Referenced(old)

\* C12: for every replace that supplies a new APK and answers 200, after
\* the call the object of the new key is in the bucket and the new key is
\* the apkKey of the record, and the old key is absent from the bucket or
\* referenced by no record.
C12_NewPresentOldGone ==
    \A r \in Slots :
      C12_BlobReplaced(r) => C12_NewKeyRecorded(r) /\ C12_OldKeyGone(r)

-----------------------------------------------------------------------------
(* C21.  In-memory revision: the ids of the records are unique.              *)

\* C21: after any sequence of publishes and removes, the clock free to give
\* the same millisecond twice, no two records (objects) of the list have the
\* same id.
C21_IdsUnique ==
    variant = "memory" =>
      \A i, j \in 1..Len(catalog) :
        (catalog[i] # Hole /\ catalog[j] # Hole /\ catalog[i].ref # catalog[j].ref)
          => catalog[i].id # catalog[j].id

-----------------------------------------------------------------------------
(* C26.  In-memory revision: a replace writes the record once, at its end.  *)

\* The step is one of the replace handler of slot r.
C26_ReplaceStep(r) ==
    /\ last' = r /\ rq'[r] # rq[r] /\ rq'[r].op = "replace"

\* C26: a replace changes the record by one write at the end of the
\* operation: no step of a replace handler other than the one that answers
\* 200 changes a field of a record, so a replace that answers with a failure
\* leaves apkKey, apkUrl and every other field as they were before the call.
C26_SingleWriteAtEnd ==
    [][\A r \in Slots :
         (C26_ReplaceStep(r) /\ ~(rq'[r].pc = "done" /\ rq'[r].res.status = 200))
           => catalog' = catalog]_vars

-----------------------------------------------------------------------------
(* C28.  In-memory revision: a remove or a replace of an id touches the     *)
(* record of that id alone.                                                  *)

\* The step is one of the remove or replace handler of slot r.
C28_Step(r) ==
    /\ last' = r /\ rq'[r] # rq[r] /\ rq'[r].op \in {"remove", "replace"}

\* C28: under every interleaving, a step of a remove or replace of an id
\* leaves every record of another id in the list, unchanged, and puts no
\* record into the list that was not in it (a removed record is not written
\* back).
C28_OnlyOwnRecord ==
    [][\A r \in Slots :
         C28_Step(r) =>
           /\ \A i \in 1..Len(catalog) :
                (catalog[i] # Hole /\ catalog[i].id # rq'[r].req.id)
                  => \E j \in 1..Len(catalog') : catalog'[j] = catalog[i]
           /\ \A j \in 1..Len(catalog') :
                \E i \in 1..Len(catalog) : catalog[i].ref = catalog'[j].ref]_vars

=============================================================================
